---- MODULE Spec2Model ----
(***************************************************************************)
(* Model of the test-artifact lifecycle of the Bureau_1440 UI test suite:  *)
(* preference resolution (pytest_plugins/options.py), configuration        *)
(* (config.py, helpers/files.py, pytest_plugins/configuration.py), the     *)
(* context and page fixtures (pytest_plugins/playwright.py), the video     *)
(* finalizer (helpers/media.py), the report hooks                          *)
(* (pytest_plugins/reporting.py), the waits of the page objects            *)
(* (pages/*.py) and the login request monitor                              *)
(* (helpers/network_monitor.py).  Spec is a session of tests and FairSpec  *)
(* the same session run to its end; SpecPrefs, SpecParse, SpecFiles,       *)
(* SpecPages and SpecMonitor apply preference resolution, _parse_bool,     *)
(* safe_filename, the page-object operations and the monitor on their own. *)
(*                                                                         *)
(* Python strings that the code inspects character by character are        *)
(* sequences of one-character strings. An optional string (os.getenv) is a *)
(* record [set, val]; Python's None is Unset.  An optional path is a tuple *)
(* <<root, kind, file name>>, None being <<>>.                              *)
(***************************************************************************)
EXTENDS Integers, Sequences, FiniteSets, TLC

\* ------------------------------------------------------------------ bounds
MaxTests == 2       \* tests run in one session
MaxFaults == 1      \* external calls that raise within one handler
MaxLen == 2         \* length of the texts given to safe_filename on its own
MaxRegistrations == 2   \* handlers registered on one LoginRequestMonitor
MaxRequests == 2        \* requests made by the monitored page

\* ------------------------------------------------------------ text helpers
UpperChars == <<"A","B","C","D","E","F","G","H","I","J","K","L","M",
                "N","O","P","Q","R","S","T","U","V","W","X","Y","Z">>
LowerChars == <<"a","b","c","d","e","f","g","h","i","j","k","l","m",
                "n","o","p","q","r","s","t","u","v","w","x","y","z">>
DigitChars == <<"0","1","2","3","4","5","6","7","8","9">>
Range(s) == {s[i] : i \in 1..Len(s)}
WhiteSpace == {" ", "\t", "\n"}

\* str.lower() on one character
LowerChar(c) ==
  IF c \in Range(UpperChars)
    THEN LowerChars[CHOOSE i \in 1..Len(UpperChars) : UpperChars[i] = c]
    ELSE c
\* str.lower()
StrLower(s) == [i \in 1..Len(s) |-> LowerChar(s[i])]
\* str.strip()
StrStrip(s) ==
  LET keep == {i \in 1..Len(s) : s[i] \notin WhiteSpace}
  IN IF keep = {} THEN <<>>
     ELSE LET lo == CHOOSE i \in keep : \A j \in keep : i <= j
              hi == CHOOSE i \in keep : \A j \in keep : j <= i
          IN SubSeq(s, lo, hi)

Unset == [set |-> FALSE, val |-> <<>>]
Some(v) == [set |-> TRUE, val |-> v]
\* truthiness of an optional string: neither None nor empty
Truthy(o) == o.set /\ o.val # <<>>

\* ------------------------------------------- pytest_plugins/options.py
TRUTHY_VALUES == {<<"1">>, <<"t","r","u","e">>, <<"y","e","s">>, <<"o","n">>,
                  <<"e","n","a","b","l","e","d">>}
FALSY_VALUES == {<<"0">>, <<"f","a","l","s","e">>, <<"n","o">>, <<"o","f","f">>,
                 <<"d","i","s","a","b","l","e","d">>}
VIDEO_KEEP_VALUES == {<<"a","l","l">>, <<"a","l","w","a","y","s">>, <<"k","e","e","p">>}
ModeOff == <<"o","f","f">>
ModeOn == <<"o","n">>
ModeRetain == <<"r","e","t","a","i","n","-","o","n","-","f","a","i","l","u","r","e">>
TRACE_MODES == {ModeOff, ModeOn, ModeRetain}

\* mutant: the value is lower-cased but not stripped
_parse_bool_unstripped(value) ==
  IF ~value.set THEN "None"
  ELSE LET normalized == StrLower(value.val)
       IN IF normalized \in TRUTHY_VALUES THEN "True"
          ELSE IF normalized \in FALSY_VALUES THEN "False"
          ELSE "None"
\* Optional[bool]: "True", "False" or "None"
_parse_bool(value) ==
  IF ~value.set THEN "None"
  ELSE LET normalized == StrLower(StrStrip(value.val))
       IN IF normalized \in TRUTHY_VALUES THEN "True"
          ELSE IF normalized \in FALSY_VALUES THEN "False"
          ELSE "None"

\* mutant: a keep value of PLAYWRIGHT_VIDEO only turns recording on
video_keep_records_only(opt, environ) ==
  LET env_video == environ.PLAYWRIGHT_VIDEO
      normalized == StrLower(StrStrip(env_video.val))
      parsed == _parse_bool(Some(normalized))
      record1 == IF ~Truthy(env_video) THEN opt.video
                 ELSE IF parsed # "None" THEN parsed = "True"
                 ELSE TRUE
      keep_override == _parse_bool(environ.PLAYWRIGHT_KEEP_VIDEO_ON_PASS)
      keep2 == IF keep_override # "None" THEN keep_override = "True"
               ELSE opt.keep_video_on_pass
  IN [record |-> record1, keep_on_pass |-> keep2]
\* mutant: PLAYWRIGHT_KEEP_VIDEO_ON_PASS is only read when PLAYWRIGHT_VIDEO does
\* not decide keep_on_pass
video_keep_value_wins(opt, environ) ==
  LET env_video == environ.PLAYWRIGHT_VIDEO
      normalized == StrLower(StrStrip(env_video.val))
      parsed == _parse_bool(Some(normalized))
      record1 == IF ~Truthy(env_video) THEN opt.video
                 ELSE IF parsed # "None" THEN parsed = "True"
                 ELSE TRUE
      keep_override == _parse_bool(environ.PLAYWRIGHT_KEEP_VIDEO_ON_PASS)
      keep2 == IF Truthy(env_video) /\ parsed = "None" /\ normalized \in VIDEO_KEEP_VALUES
                 THEN TRUE
               ELSE IF keep_override # "None" THEN keep_override = "True"
               ELSE opt.keep_video_on_pass
  IN [record |-> record1, keep_on_pass |-> keep2]
\* lines 42-63
_resolve_video_preferences(opt, environ) ==
  LET env_video == environ.PLAYWRIGHT_VIDEO
      normalized == StrLower(StrStrip(env_video.val))
      parsed == _parse_bool(Some(normalized))
      record0 == opt.video
      keep0 == opt.keep_video_on_pass
      record1 == IF ~Truthy(env_video) THEN record0
                 ELSE IF parsed # "None" THEN parsed = "True"
                 ELSE TRUE
      keep1 == IF Truthy(env_video) /\ parsed = "None" /\ normalized \in VIDEO_KEEP_VALUES
                 THEN TRUE ELSE keep0
      keep_override == _parse_bool(environ.PLAYWRIGHT_KEEP_VIDEO_ON_PASS)
      keep2 == IF keep_override # "None" THEN keep_override = "True" ELSE keep1
  IN [record |-> record1, keep_on_pass |-> keep2]

\* mutant: a truthy PLAYWRIGHT_TRACE selects retain-on-failure
trace_truthy_retains(opt, environ) ==
  LET env_trace == environ.PLAYWRIGHT_TRACE
      normalized == StrLower(StrStrip(env_trace.val))
      parsed == _parse_bool(Some(normalized))
      mode == IF ~Truthy(env_trace) THEN opt.pw_trace
              ELSE IF normalized \in TRACE_MODES THEN normalized
              ELSE IF parsed = "True" THEN ModeRetain
              ELSE opt.pw_trace
  IN [enabled |-> mode # ModeOff, retain_on_failure |-> mode = ModeRetain]
\* mutant: a PLAYWRIGHT_TRACE that is not recognised turns tracing off
trace_unrecognised_off(opt, environ) ==
  LET env_trace == environ.PLAYWRIGHT_TRACE
      normalized == StrLower(StrStrip(env_trace.val))
      parsed == _parse_bool(Some(normalized))
      mode == IF ~Truthy(env_trace) THEN opt.pw_trace
              ELSE IF normalized \in TRACE_MODES THEN normalized
              ELSE IF parsed = "True"
                     THEN (IF normalized \in VIDEO_KEEP_VALUES THEN ModeRetain ELSE ModeOn)
              ELSE ModeOff
  IN [enabled |-> mode # ModeOff, retain_on_failure |-> mode = ModeRetain]
\* mutant: a PLAYWRIGHT_TRACE that reads as false turns tracing off
trace_falsy_disables(opt, environ) ==
  LET env_trace == environ.PLAYWRIGHT_TRACE
      normalized == StrLower(StrStrip(env_trace.val))
      parsed == _parse_bool(Some(normalized))
      mode == IF ~Truthy(env_trace) THEN opt.pw_trace
              ELSE IF normalized \in TRACE_MODES THEN normalized
              ELSE IF parsed = "True"
                     THEN (IF normalized \in VIDEO_KEEP_VALUES THEN ModeRetain ELSE ModeOn)
              ELSE IF parsed = "False" THEN ModeOff
              ELSE opt.pw_trace
  IN [enabled |-> mode # ModeOff, retain_on_failure |-> mode = ModeRetain]
\* lines 66-80
_resolve_trace_preferences(opt, environ) ==
  LET env_trace == environ.PLAYWRIGHT_TRACE
      normalized == StrLower(StrStrip(env_trace.val))
      parsed == _parse_bool(Some(normalized))
      mode == IF ~Truthy(env_trace) THEN opt.pw_trace
              ELSE IF normalized \in TRACE_MODES THEN normalized
              ELSE IF parsed = "True"
                     THEN (IF normalized \in VIDEO_KEEP_VALUES THEN ModeRetain ELSE ModeOn)
              ELSE opt.pw_trace
  IN [enabled |-> mode # ModeOff, retain_on_failure |-> mode = ModeRetain]

artifact_preferences(opt, environ) ==
  [video |-> _resolve_video_preferences(opt, environ),
   trace |-> _resolve_trace_preferences(opt, environ)]

\* ------------------------------------------------- config.py, helpers/files.py
DefaultArtifactsRoot == <<"a","r","t","i","f","a","c","t","s">>

\* get_app_config(base_host): [err |-> TRUE] models the ValueError
get_app_config(base_host, environ) ==
  LET admin_host == IF Truthy(base_host) THEN base_host ELSE environ.APP_BASE_HOST
  IN IF ~Truthy(admin_host)
       THEN [err |-> TRUE, admin_host |-> <<>>, artifacts_dir |-> <<>>]
       ELSE [err |-> FALSE, admin_host |-> admin_host.val,
             artifacts_dir |-> IF environ.ARTIFACTS_ROOT.set
                                 THEN environ.ARTIFACTS_ROOT.val
                                 ELSE DefaultArtifactsRoot]

SafeChars == Range(UpperChars) \cup Range(LowerChars) \cup Range(DigitChars)
             \cup {".", "_", "-"}
\* mutant: the characters outside the class are removed
safe_filename_drops_unsafe(text) ==
  LET IsSafe(c) == c \in SafeChars IN SelectSeq(text, IsSafe)
\* re.sub(r"[^A-Za-z0-9._-]", "_", text)
safe_filename(text) == [i \in 1..Len(text) |-> IF text[i] \in SafeChars THEN text[i] ELSE "_"]

\* get_artifact_path(artifact_type): always get_app_config(None)
get_artifact_path(artifact_type, environ) ==
  LET config == get_app_config(Unset, environ)
  IN IF config.err THEN [err |-> TRUE, path |-> <<>>]
     ELSE [err |-> FALSE, path |-> <<config.artifacts_dir, artifact_type>>]

ExtZip == <<".","z","i","p">>
ExtWebm == <<".","w","e","b","m">>
ExtPng == <<".","p","n","g">>
\* directory / f"{safe_filename(nodeid)}{ext}"
FileIn(dir, nodeid, ext) == Append(dir, safe_filename(nodeid) \o ext)


\* ------------------------------------------- external calls and exceptions
\* A handler's calls into Playwright, allure and the file system are Steps; F is
\* the set of calls that raise.  Run executes the steps in order up to and
\* including the first one that raises.
Ev(op, ok, path) == [op |-> op, ok |-> ok, path |-> path]
Step(op, path) == [op |-> op, path |-> path]
Run(steps, F) ==
  LET bad == {i \in 1..Len(steps) : steps[i].op \in F}
  IN IF bad = {}
       THEN [events |-> [i \in 1..Len(steps) |-> Ev(steps[i].op, TRUE, steps[i].path)],
             raised |-> FALSE]
       ELSE LET k == CHOOSE i \in bad : \A j \in bad : i <= j
            IN [events |-> [i \in 1..k |-> Ev(steps[i].op, i < k, steps[i].path)],
                raised |-> TRUE]
Nothing == [events |-> <<>>, raised |-> FALSE]
Raise == [events |-> <<>>, raised |-> TRUE]
\* try: block / except Exception: log
Caught(r) == [events |-> r.events, raised |-> FALSE]
\* a; b  (b is skipped when a raised)
Then(a, b) == IF a.raised THEN a
              ELSE [events |-> a.events \o b.events, raised |-> b.raised]

\* ------------------------------------------------------ helpers/media.py
\* mutant: the kept video's handle is not deleted after save_as
finalize_without_delete(video_obj, nodeid, keep, attach_on_keep, environ, F) ==
  IF video_obj = "None" THEN [events |-> <<>>, raised |-> FALSE, ret |-> <<>>]
  ELSE LET dir == get_artifact_path("videos", environ)
           video_path == FileIn(dir.path, nodeid, ExtWebm)
           r == IF ~keep THEN Run(<<Step("video.delete", <<>>)>>, F)
                ELSE IF dir.err THEN Raise
                ELSE Run(<<Step("ensure_dir(videos)", dir.path),
                           Step("video.save_as", video_path)>>
                         \o (IF attach_on_keep
                               THEN <<Step("allure.attach.file", video_path)>> ELSE <<>>), F)
       IN [events |-> r.events, raised |-> r.raised,
           ret |-> IF keep /\ ~r.raised THEN video_path ELSE <<>>]
\* mutant: the saved video is attached whatever attach_on_keep says
finalize_always_attach(video_obj, nodeid, keep, attach_on_keep, environ, F) ==
  IF video_obj = "None" THEN [events |-> <<>>, raised |-> FALSE, ret |-> <<>>]
  ELSE LET dir == get_artifact_path("videos", environ)
           video_path == FileIn(dir.path, nodeid, ExtWebm)
           r == IF ~keep THEN Run(<<Step("video.delete", <<>>)>>, F)
                ELSE IF dir.err THEN Raise
                ELSE Run(<<Step("ensure_dir(videos)", dir.path),
                           Step("video.save_as", video_path),
                           Step("allure.attach.file", video_path),
                           Step("video.delete", <<>>)>>, F)
       IN [events |-> r.events, raised |-> r.raised,
           ret |-> IF keep /\ ~r.raised THEN video_path ELSE <<>>]
finalize_video_artifact(video_obj, nodeid, keep, attach_on_keep, environ, F) ==
  IF video_obj = "None" THEN [events |-> <<>>, raised |-> FALSE, ret |-> <<>>]
  ELSE IF keep THEN
    LET dir == get_artifact_path("videos", environ)
        video_path == FileIn(dir.path, nodeid, ExtWebm)
        r == IF dir.err THEN Raise
             ELSE Run(<<Step("ensure_dir(videos)", dir.path),
                        Step("video.save_as", video_path)>>
                      \o (IF attach_on_keep
                            THEN <<Step("allure.attach.file", video_path)>> ELSE <<>>)
                      \o <<Step("video.delete", <<>>)>>, F)
    IN [events |-> r.events, raised |-> r.raised,
        ret |-> IF r.raised THEN <<>> ELSE video_path]
  ELSE
    LET r == Run(<<Step("video.delete", <<>>)>>, F)
    IN [events |-> r.events, raised |-> r.raised, ret |-> <<>>]

\* ------------------------------------------- helpers/network_monitor.py
\* "sub in s" of two strings
Contains(s, sub) ==
  \E i \in 0..(Len(s) - Len(sub)) : SubSeq(s, i + 1, i + Len(sub)) = sub
LoginPath == <<"/","a","d","m","i","n","/","l","o","g","i","n">>
\* line 54
is_login_post(request) == request.method = "POST" /\ Contains(request.url, LoginPath)

\* mutant: every registration adds a listener to the page
on_login_request_listens_again(self, page_listeners, handler) ==
  [self |-> [_handler |-> handler, _listener_registered |-> TRUE],
   listeners |-> Append(page_listeners, "_handle_request")]
\* on_login_request(handler) (lines 31-35)
on_login_request(self, page_listeners, handler) ==
  [self |-> [_handler |-> handler, _listener_registered |-> TRUE],
   listeners |-> IF ~self._listener_registered
                   THEN Append(page_listeners, "_handle_request")
                   ELSE page_listeners]
\* collect_requests(storage): the handler is the closure store_url (lines 43-46)
store_url(storage) == [kind |-> "store_url", target |-> storage]
collect_requests(self, page_listeners, storage) ==
  on_login_request(self, page_listeners, store_url(storage))
\* a callback passed to on_login_request
callback(name) == [kind |-> "callback", target |-> name]
\* the call self._handler(request): a callback is given the request, store_url
\* appends request.url to its list
Invoke(got, handler, request) ==
  [got EXCEPT ![handler.target] =
     Append(@, IF handler.kind = "store_url" THEN request.url ELSE request)]
\* _handle_request(request) (lines 54-57); a callable is truthy
_handle_request(self, got, request) ==
  IF is_login_post(request) /\ self._handler.kind # "None"
    THEN Invoke(got, self._handler, request)
    ELSE got
\* the page emits "request": each listener is called in turn
RECURSIVE Emit(_, _, _, _)
Emit(page_listeners, self, got, request) ==
  IF page_listeners = <<>> THEN got
  ELSE Emit(Tail(page_listeners), self, _handle_request(self, got, request), request)

\* ------------------------------------------- pytest_plugins/playwright.py
_trace_path(nodeid, environ) ==
  LET dir == get_artifact_path("traces", environ)
  IN [err |-> dir.err, path |-> IF dir.err THEN <<>> ELSE FileIn(dir.path, nodeid, ExtZip)]

\* mutant: the new context is already marked as failed
context_attributes_marked_failed(preferences) ==
  [record_video_enabled |-> preferences.video.record,
   keep_video_on_pass |-> preferences.video.keep_on_pass,
   trace_enabled |-> preferences.trace.enabled,
   trace_retain_on_failure |-> preferences.trace.retain_on_failure,
   last_failed |-> TRUE]
\* the attributes set on the new context (lines 75-79)
context_attributes(preferences) ==
  [record_video_enabled |-> preferences.video.record,
   keep_video_on_pass |-> preferences.video.keep_on_pass,
   trace_enabled |-> preferences.trace.enabled,
   trace_retain_on_failure |-> preferences.trace.retain_on_failure,
   last_failed |-> FALSE]

\* context fixture up to its yield (lines 60-88), and its finally block when the
\* body raises before the yield
context_setup(preferences, environ, F) ==
  LET traces == get_artifact_path("traces", environ)
      videos == get_artifact_path("videos", environ)
      dirs == IF traces.err THEN Raise
              ELSE Run(<<Step("ensure_dir(traces)", traces.path)>>
                       \o (IF preferences.video.record
                             THEN <<Step("ensure_dir(videos)", videos.path)>> ELSE <<>>), F)
      new == Run(<<Step("browser.new_context", <<>>)>>, F)
      start == IF preferences.trace.enabled
                 THEN Run(<<Step("tracing.start", <<>>)>>, F) ELSE Nothing
      \* finally: context is not None, tracing_started is False
      close == Caught(Run(<<Step("context.close", <<>>)>>, F))
  IN IF dirs.raised
       THEN [events |-> dirs.events, raised |-> TRUE, cfg_err |-> traces.err,
             created |-> FALSE, yielded |-> FALSE, tracing_started |-> FALSE]
     ELSE IF new.raised
       \* finally: "if context is None: return" drops the exception; the
       \* generator ends without a yield, which pytest reports as an error
       THEN [events |-> dirs.events \o new.events, raised |-> TRUE, cfg_err |-> FALSE,
             created |-> FALSE, yielded |-> FALSE, tracing_started |-> FALSE]
     ELSE IF start.raised
       THEN [events |-> dirs.events \o new.events \o start.events \o close.events,
             raised |-> TRUE, cfg_err |-> FALSE,
             created |-> TRUE, yielded |-> FALSE, tracing_started |-> FALSE]
     ELSE [events |-> dirs.events \o new.events \o start.events,
           raised |-> FALSE, cfg_err |-> FALSE,
           created |-> TRUE, yielded |-> TRUE,
           tracing_started |-> preferences.trace.enabled]

\* mutant: a failure of tracing.stop is not caught
stop_tracing_uncaught(context, tracing_started, nodeid, environ, F) ==
  IF context.trace_enabled /\ tracing_started
    THEN (IF context.trace_retain_on_failure /\ ~context.last_failed
            THEN Run(<<Step("tracing.stop", <<>>)>>, F)
            ELSE Run(<<Step("tracing.stop", _trace_path(nodeid, environ).path)>>, F))
    ELSE Nothing
\* mutant: tracing is never stopped
stop_tracing_skipped(context, tracing_started, nodeid, environ, F) == Nothing
\* the tracing block of the context fixture's finally (lines 97-105)
stop_tracing(context, tracing_started, nodeid, environ, F) ==
  IF context.trace_enabled /\ tracing_started
    THEN Caught(IF context.trace_retain_on_failure /\ ~context.last_failed
                  THEN Run(<<Step("tracing.stop", <<>>)>>, F)
                  ELSE LET trace_path == _trace_path(nodeid, environ)
                       IN IF trace_path.err THEN Raise
                          ELSE Run(<<Step("tracing.stop", trace_path.path)>>, F))
    ELSE Nothing

\* context.close() of the context fixture's finally (lines 107-110)
close_context(F) == Caught(Run(<<Step("context.close", <<>>)>>, F))

\* mutant: the context is closed before tracing is stopped
context_teardown_close_first(context, tracing_started, nodeid, environ, F) ==
  Then(close_context(F), stop_tracing(context, tracing_started, nodeid, environ, F))
\* the context fixture's finally block after the yield (lines 89-110)
context_teardown(context, tracing_started, nodeid, environ, F) ==
  Then(stop_tracing(context, tracing_started, nodeid, environ, F), close_context(F))

_is_failed(r) == r = "failed"
_is_skipped(r) == r = "skipped"
Phases == {"setup", "call", "teardown"}
\* lines 129-131
failed_any(rep) == \E w \in Phases : rep[w] # "None" /\ _is_failed(rep[w])
\* mutant: a setup that failed before any call also counts as skipped
skipped_any_or_setup_failed(rep) ==
  \/ \E w \in Phases : rep[w] # "None" /\ _is_skipped(rep[w])
  \/ rep.call = "None" /\ rep.setup # "None" /\ _is_failed(rep.setup)
skipped_any(rep) == \E w \in Phases : rep[w] # "None" /\ _is_skipped(rep[w])
capture_needed(rep) == failed_any(rep) \/ skipped_any(rep)

\* mutant: a failure of the screenshot capture is not caught
capture_screenshot_uncaught(nodeid, environ, F) ==
  LET dir == get_artifact_path("screenshots", environ)
  IN IF dir.err THEN Raise
     ELSE Run(<<Step("ensure_dir(screenshots)", dir.path),
                Step("page.screenshot", FileIn(dir.path, nodeid, ExtPng)),
                Step("allure.attach(png)", <<>>)>>, F)
\* lines 133-140
capture_screenshot(nodeid, environ, F) ==
  LET dir == get_artifact_path("screenshots", environ)
  IN Caught(IF dir.err THEN Raise
            ELSE Run(<<Step("ensure_dir(screenshots)", dir.path),
                       Step("page.screenshot", FileIn(dir.path, nodeid, ExtPng)),
                       Step("allure.attach(png)", <<>>)>>, F))
\* lines 142-146
capture_html(F) ==
  Caught(Run(<<Step("page.content", <<>>), Step("allure.attach(html)", <<>>)>>, F))
\* lines 148-151
read_video(F) == Caught(Run(<<Step("page.video", <<>>)>>, F))
\* mutant: a failure of page.close is not caught
close_page_uncaught(F) == Run(<<Step("page.close", <<>>)>>, F)
\* lines 153-156
close_page(F) == Caught(Run(<<Step("page.close", <<>>)>>, F))

\* mutant: a skipped test does not keep its video
keep_video_unless_skipped(context, rep) ==
  IF context.record_video_enabled
    THEN failed_any(rep) \/ context.keep_video_on_pass
    ELSE FALSE
\* mutant: keep-on-pass and the outcome count while recording is disabled
keep_video_when_disabled(context, rep) ==
  failed_any(rep) \/ skipped_any(rep) \/ context.keep_video_on_pass
\* lines 164-165 and 168
keep_video(context, rep) ==
  IF context.record_video_enabled
    THEN failed_any(rep) \/ skipped_any(rep) \/ context.keep_video_on_pass
    ELSE FALSE
\* mutant: the video of a skipped test is not attached
attach_video_failed_only(context, rep) ==
  IF context.record_video_enabled THEN failed_any(rep) ELSE FALSE
attach_video(context, rep) ==
  IF context.record_video_enabled THEN failed_any(rep) \/ skipped_any(rep) ELSE FALSE

\* the page fixture after its yield (lines 119-168)
page_teardown(context, rep, page_video, nodeid, environ, F) ==
  LET capture == IF capture_needed(rep)
                   THEN Then(capture_screenshot(nodeid, environ, F), capture_html(F))
                   ELSE Nothing
      video_obj == IF "page.video" \in F THEN "None" ELSE page_video
      before == Then(capture, Then(read_video(F), close_page(F)))
      \* line 163: finalize when recording; line 167: or when a handle exists
      fin_called == context.record_video_enabled \/ video_obj # "None"
      fin == IF fin_called
               THEN finalize_video_artifact(video_obj, nodeid, keep_video(context, rep),
                                            attach_video(context, rep), environ, F)
               ELSE [events |-> <<>>, raised |-> FALSE, ret |-> <<>>]
      all == Then(before, fin)
  IN [events |-> all.events, raised |-> all.raised,
      \* line 158 is reached unless an earlier statement raised
      last_failed_set |-> ~before.raised,
      failed_any |-> failed_any(rep), skipped_any |-> skipped_any(rep),
      video_obj |-> video_obj,
      fin_called |-> ~before.raised /\ fin_called,
      keep |-> keep_video(context, rep), attach_on_keep |-> attach_video(context, rep),
      ret |-> IF before.raised THEN <<>> ELSE fin.ret]


\* ------------------------------------------------------------ the session
VARIABLES
  opt,              \* pytestconfig options (pytest_addoption)
  environ,          \* os.environ after load_dotenv
  preferences,      \* session fixture artifact_preferences (cached)
  app_cfg,          \* session fixture app_config: "unset", "ok" or "skip"
  browser,          \* session fixture browser: "unset", "ok" or "skip"
  testNo,           \* number of the running test item
  pc,               \* position in the run-test protocol of that item
  when,             \* phase in progress: "setup", "call" or "teardown"
  phase,            \* outcome of the phase in progress
  rep,              \* item.rep_setup, item.rep_call, item.rep_teardown
  context,          \* the BrowserContext with the attributes set on it
  tracing_started,  \* local of the context fixture
  page,             \* "none", "open" or "closed"
  page_video,       \* page.video: "None" or "video"
  log,              \* external calls of this test, in order
  td,               \* what the fixtures' teardown did
  durations,        \* config._test_runtimes (outcome labels)
  summary,          \* the totals pytest_sessionfinish printed
  monitor,          \* LoginRequestMonitor: _handler, _listener_registered
  listeners,        \* the page's listeners of the "request" event
  received,         \* what each callback and each storage list was given
  registrations,    \* the handlers registered on the monitor, in order
  requests,         \* the requests the page made, in order
  value,            \* argument of _parse_bool when it is applied on its own
  parsed,           \* its result
  text,             \* argument of safe_filename when it is applied on its own
  names,            \* its result and the artifact file names built from it
  waiting,          \* page-object operation or fixture called on its own, and
                    \* how each Playwright call of it ends
  returned          \* what it returned or raised

vars == <<opt, environ, preferences, app_cfg, browser, testNo, pc, when, phase, rep,
          context, tracing_started, page, page_video, log, td, durations,
          summary, monitor, listeners, received, registrations, requests, value, parsed, text, names, waiting, returned>>
\* what no step of a test run changes
monitoring == <<monitor, listeners, received, registrations, requests>>
session == <<opt, environ, summary, monitoring, value, parsed, text, names, waiting,
             returned>>
\* the fixtures' objects and the reports of the running test
fixtures == <<preferences, app_cfg, browser, testNo, when, phase, rep, context,
              tracing_started, page, page_video, td, durations, summary>>

DefaultBaseUrl == <<"a","p","p",".","m","e","r","a",".","f","i","t">>
AdminHost == <<"a","d","m","i","n",".","t","e","s","t">>

\* inputs of a session
\* --base-url (default or given empty) with APP_BASE_HOST
HostConfigs == {[base_url |-> Some(DefaultBaseUrl), APP_BASE_HOST |-> Some(AdminHost)],
                [base_url |-> Some(DefaultBaseUrl), APP_BASE_HOST |-> Unset],
                [base_url |-> Some(<<>>), APP_BASE_HOST |-> Unset]}
BaseUrls == {c.base_url : c \in HostConfigs}
AppBaseHosts == {c.APP_BASE_HOST : c \in HostConfigs}
EnvVideos == {Unset}
EnvKeeps == {Unset}
EnvTraces == {Unset}

NodeIds == << <<"t","/","a",":",":","T","[","a","/","b","]">>,
              <<"t","_","v",".","p","y",":",":","T","-","x">> >>
nodeid == NodeIds[((testNo + Len(NodeIds) - 1) % Len(NodeIds)) + 1]

NoContext == [state |-> "none", record_video_enabled |-> FALSE,
              keep_video_on_pass |-> FALSE, trace_enabled |-> FALSE,
              trace_retain_on_failure |-> FALSE, last_failed |-> FALSE]
NoPreferences == [resolved |-> FALSE,
                  video |-> [record |-> FALSE, keep_on_pass |-> FALSE],
                  trace |-> [enabled |-> FALSE, retain_on_failure |-> FALSE]]
NoReports == [setup |-> "None", call |-> "None", teardown |-> "None"]
NoTeardown == [cfg_err |-> FALSE, setup_raised |-> FALSE,
               page_ran |-> FALSE, page_raised |-> FALSE,
               failed_any |-> FALSE, skipped_any |-> FALSE, video_obj |-> "None",
               fin_called |-> FALSE, keep |-> FALSE, attach_on_keep |-> FALSE,
               ret |-> <<>>,
               context_ran |-> FALSE, context_raised |-> FALSE, used_failed |-> FALSE]

NoSummary == [printed |-> FALSE, total |-> 0, passed |-> 0, failed |-> 0]
NoNames == [safe |-> <<>>, screenshot |-> <<>>, video |-> <<>>, trace |-> <<>>]

\* no fixture has run and no test has started
NothingRun ==
  /\ preferences = NoPreferences
  /\ app_cfg = "unset"
  /\ browser = "unset"
  /\ testNo = 0
  /\ when = "setup"
  /\ phase = "passed"
  /\ rep = NoReports
  /\ context = NoContext
  /\ tracing_started = FALSE
  /\ page = "none"
  /\ page_video = "None"
  /\ log = <<>>
  /\ td = NoTeardown
  /\ durations = <<>>
  /\ summary = NoSummary
\* no function is applied on its own
NothingParsed == value = Unset /\ parsed = "None"
NothingNamed == text = <<>> /\ names = NoNames
NoCall == [name |-> "none", ends |-> <<>>, frame_found |-> FALSE]
NoReturn == [kind |-> "none", value |-> "None"]
NothingCalled == waiting = NoCall /\ returned = NoReturn
NoHandler == [kind |-> "None", target |-> "None"]
NoMonitor == [_handler |-> NoHandler, _listener_registered |-> FALSE]
Callbacks == {"handler_a", "handler_b"}
Storages == {"storage_a", "storage_b"}
NothingMonitored ==
  /\ monitor = NoMonitor
  /\ listeners = <<>>
  /\ received = [t \in Callbacks \cup Storages |-> <<>>]
  /\ registrations = <<>>
  /\ requests = <<>>

Init ==
  /\ opt \in [video : BOOLEAN, keep_video_on_pass : BOOLEAN,
              pw_trace : TRACE_MODES, base_url : BaseUrls]
  /\ environ \in [PLAYWRIGHT_VIDEO : EnvVideos,
                  PLAYWRIGHT_KEEP_VIDEO_ON_PASS : EnvKeeps,
                  PLAYWRIGHT_TRACE : EnvTraces,
                  APP_BASE_HOST : AppBaseHosts,
                  ARTIFACTS_ROOT : {Unset}]
  /\ [base_url |-> opt.base_url, APP_BASE_HOST |-> environ.APP_BASE_HOST] \in HostConfigs
  /\ pc = "idle"
  /\ NothingRun
  /\ NothingParsed
  /\ NothingNamed
  /\ NothingCalled
  /\ NothingMonitored

\* the sets of calls that raise in one handler: at most MaxFaults calls raise
\* in one test
Failed(events) == Cardinality({i \in 1..Len(events) : ~events[i].ok})
Faults(ops, events) == {F \in SUBSET ops : Cardinality(F) + Failed(events) <= MaxFaults}
Outcomes == {"passed", "failed", "skipped"}

\* the setup phase ends with the outcome o
EndSetup(o) == phase' = o /\ pc' = "report"

\* pytest takes the next item of the session: it has no rep_* attribute yet
StartTest ==
  /\ pc = "idle"
  /\ testNo < MaxTests
  /\ testNo' = testNo + 1
  /\ pc' = "app_config"
  /\ rep' = NoReports
  /\ UNCHANGED <<session, preferences, app_cfg, browser, when, phase, context,
                 tracing_started, page, page_video, log, td, durations>>

\* pytest_plugins/configuration.py: app_config (session scope, result cached)
AppConfigFixture ==
  /\ pc = "app_config"
  /\ LET result == IF app_cfg = "unset"
                     THEN (IF get_app_config(opt.base_url, environ).err
                             THEN "skip" ELSE "ok")
                     ELSE app_cfg
     IN /\ app_cfg' = result
        /\ IF result = "skip" THEN EndSetup("skipped")
           ELSE phase' = phase /\ pc' = "browser"
  /\ UNCHANGED <<session, preferences, browser, testNo, when, rep, context,
                 tracing_started, page, page_video, log, td, durations>>

\* browser fixture (session scope, result cached): a failed launch skips
BrowserFixture ==
  /\ pc = "browser"
  /\ \E launched \in BOOLEAN :
       LET result == IF browser = "unset"
                       THEN (IF launched THEN "ok" ELSE "skip")
                       ELSE browser
       IN /\ browser' = result
          /\ IF result = "skip" THEN EndSetup("skipped")
             ELSE phase' = phase /\ pc' = "preferences"
  /\ UNCHANGED <<session, preferences, app_cfg, testNo, when, rep, context,
                 tracing_started, page, page_video, log, td, durations>>

\* pytest_plugins/options.py: artifact_preferences (session scope, cached)
PreferencesFixture ==
  /\ pc = "preferences"
  /\ preferences' = IF preferences.resolved THEN preferences
                    ELSE [resolved |-> TRUE] @@ artifact_preferences(opt, environ)
  /\ pc' = "context"
  /\ UNCHANGED <<session, app_cfg, browser, testNo, when, phase, rep, context,
                 tracing_started, page, page_video, log, td, durations>>

ContextSetupOps == {"ensure_dir(traces)", "ensure_dir(videos)", "browser.new_context",
                    "tracing.start", "context.close"}

\* context fixture up to its yield
ContextSetup ==
  /\ pc = "context"
  /\ \E F \in Faults(ContextSetupOps, log) :
       LET r == context_setup(preferences, environ, F)
       IN /\ log' = log \o r.events
          /\ td' = [td EXCEPT !.cfg_err = r.cfg_err, !.setup_raised = r.raised]
          /\ tracing_started' = r.tracing_started
          /\ context' = IF r.created
                          THEN [state |-> IF r.yielded THEN "open" ELSE "closed"]
                               @@ context_attributes(preferences)
                          ELSE context
          /\ IF r.yielded THEN phase' = phase /\ pc' = "page"
             ELSE EndSetup("failed")
  /\ UNCHANGED <<session, preferences, app_cfg, browser, testNo, when, rep,
                 page, page_video, durations>>

\* page fixture up to its yield: context.new_page()
PageSetup ==
  /\ pc = "page"
  /\ \E ok \in {TRUE} \cup (IF Failed(log) < MaxFaults THEN {FALSE} ELSE {}),
        v \in {"None", "video"} :
       /\ log' = Append(log, Ev("context.new_page", ok, <<>>))
       /\ IF ok
            THEN /\ page' = "open"
                 /\ page_video' = v
                 /\ phase' = phase
                 /\ pc' = "fixtures"
                 /\ td' = td
            ELSE /\ page' = page
                 /\ page_video' = page_video
                 /\ td' = [td EXCEPT !.setup_raised = TRUE]
                 /\ EndSetup("failed")
  /\ UNCHANGED <<session, preferences, app_cfg, browser, testNo, when, rep, context,
                 tracing_started, durations>>

\* the fixtures set up after page (login_page, opened_login_page,
\* admin_credentials, ...): they pass, raise or skip
OtherFixtures ==
  /\ pc = "fixtures"
  /\ \E o \in Outcomes : EndSetup(o)
  /\ UNCHANGED <<session, preferences, app_cfg, browser, testNo, when, rep, context,
                 tracing_started, page, page_video, log, td, durations>>

\* the test function: passes, fails or is skipped (pytest.skip, xfail)
TestCall ==
  /\ pc = "call"
  /\ \E o \in Outcomes : phase' = o
  /\ pc' = "report"
  /\ UNCHANGED <<session, preferences, app_cfg, browser, testNo, when, rep, context,
                 tracing_started, page, page_video, log, td, durations>>

\* pytest_plugins/reporting.py: pytest_runtest_makereport, after each phase
FirstFinalizer ==
  IF page = "open" THEN "page_teardown"
  ELSE IF context.state = "open" THEN "context_teardown"
  ELSE "report"
pytest_runtest_makereport ==
  /\ pc = "report"
  /\ rep' = [rep EXCEPT ![when] = phase]
  /\ IF when = "setup" /\ phase = "passed"
       THEN when' = "call" /\ pc' = "call" /\ phase' = phase
     ELSE IF when \in {"setup", "call"}
       \* the teardown phase begins: the finalizers run, last set up first
       THEN when' = "teardown" /\ pc' = FirstFinalizer /\ phase' = "passed"
     ELSE when' = when /\ pc' = "protocol" /\ phase' = phase
  /\ UNCHANGED <<session, preferences, app_cfg, browser, testNo, context,
                 tracing_started, page, page_video, log, td, durations>>

PageTeardownOps == {"ensure_dir(screenshots)", "page.screenshot", "allure.attach(png)",
                    "page.content", "allure.attach(html)", "page.video", "page.close",
                    "ensure_dir(videos)", "video.save_as", "allure.attach.file",
                    "video.delete"}

\* page fixture after its yield
PageTeardown ==
  /\ pc = "page_teardown"
  /\ \E F \in Faults(PageTeardownOps, log) :
       LET r == page_teardown(context, rep, page_video, nodeid, environ, F)
       IN /\ log' = log \o r.events
          /\ context' = IF r.last_failed_set
                          THEN [context EXCEPT !.last_failed = r.failed_any]
                          ELSE context
          /\ td' = [td EXCEPT !.page_ran = TRUE, !.page_raised = r.raised,
                              !.failed_any = r.failed_any,
                              !.skipped_any = r.skipped_any,
                              !.video_obj = r.video_obj,
                              !.fin_called = r.fin_called, !.keep = r.keep,
                              !.attach_on_keep = r.attach_on_keep, !.ret = r.ret]
          \* a finalizer that raises fails the teardown phase; pytest still
          \* runs the remaining finalizers
          /\ phase' = IF r.raised THEN "failed" ELSE phase
  /\ page' = "closed"
  /\ pc' = "context_teardown"
  /\ UNCHANGED <<session, preferences, app_cfg, browser, testNo, when, rep,
                 tracing_started, page_video, durations>>

ContextTeardownOps == {"tracing.stop", "context.close"}

\* context fixture after its yield: the finally block
ContextTeardown ==
  /\ pc = "context_teardown"
  /\ \E F \in Faults(ContextTeardownOps, log) :
       LET r == context_teardown(context, tracing_started, nodeid, environ, F)
       IN /\ log' = log \o r.events
          /\ td' = [td EXCEPT !.context_ran = TRUE, !.context_raised = r.raised,
                              !.used_failed = context.last_failed]
          /\ phase' = IF r.raised THEN "failed" ELSE phase
  /\ context' = [context EXCEPT !.state = "closed"]
  /\ pc' = "report"
  /\ UNCHANGED <<session, preferences, app_cfg, browser, testNo, when, rep,
                 tracing_started, page, page_video, durations>>

\* mutant: a test with a failed report is labelled failed
outcome_label_any_failed(r) ==
  IF \E w \in Phases : r[w] = "failed" THEN "failed"
  ELSE IF r.call # "None" THEN r.call
  ELSE "skipped"
\* pytest_plugins/reporting.py: pytest_runtest_protocol, after the three phases
outcome_label(r) ==
  IF r.call # "None" THEN r.call
  ELSE IF r.setup # "None" /\ r.setup = "failed" THEN "failed"
  ELSE "skipped"
pytest_runtest_protocol ==
  /\ pc = "protocol"
  /\ durations' = Append(durations, outcome_label(rep))
  /\ pc' = "idle"
  \* the item is done: its fixtures' objects go with it, its rep_* attributes
  \* stay on it
  /\ when' = "setup"
  /\ phase' = "passed"
  /\ context' = NoContext
  /\ tracing_started' = FALSE
  /\ page' = "none"
  /\ page_video' = "None"
  /\ log' = <<>>
  /\ td' = NoTeardown
  /\ UNCHANGED <<session, preferences, app_cfg, browser, testNo, rep>>

\* mutant: the summary counts every record that did not fail as passed
summary_counts_not_failed(records) ==
  IF records = <<>> THEN NoSummary
  ELSE [printed |-> TRUE,
        total |-> Len(records),
        passed |-> Cardinality({i \in 1..Len(records) : records[i] # "failed"}),
        failed |-> Cardinality({i \in 1..Len(records) : records[i] = "failed"})]
\* pytest_plugins/reporting.py: the totals of pytest_sessionfinish (lines 56-58
\* and 77-83)
session_summary(records) ==
  IF records = <<>> THEN NoSummary
  ELSE [printed |-> TRUE,
        total |-> Len(records),
        passed |-> Cardinality({i \in 1..Len(records) : records[i] = "passed"}),
        failed |-> Cardinality({i \in 1..Len(records) : records[i] = "failed"})]
\* pytest_sessionfinish, after the last item of the session
pytest_sessionfinish ==
  /\ pc = "idle"
  /\ summary' = session_summary(durations)
  /\ pc' = "finished"
  /\ UNCHANGED <<opt, environ, monitoring, value, parsed, text, names, waiting,
                 returned, preferences, app_cfg, browser, testNo, when, phase, rep, context,
                 tracing_started, page, page_video, log, td, durations>>

Next ==
  \/ StartTest
  \/ AppConfigFixture
  \/ BrowserFixture
  \/ PreferencesFixture
  \/ ContextSetup
  \/ PageSetup
  \/ OtherFixtures
  \/ TestCall
  \/ pytest_runtest_makereport
  \/ PageTeardown
  \/ ContextTeardown
  \/ pytest_runtest_protocol
  \/ pytest_sessionfinish

Spec == Init /\ [][Next]_vars


\* ------------------------------------------------------------ properties
Idx(op) == {i \in 1..Len(log) : log[i].op = op}
Count(op) == Cardinality(Idx(op))
CountOk(op) == Cardinality({i \in Idx(op) : log[i].ok})
\* the finalizers of the running test have all run
TeardownOver ==
  \/ pc = "report" /\ when = "teardown"
  \/ pc = "protocol"
\* the outcome as the reports of the setup and call phases give it
FailedBeforeTeardown == rep.setup = "failed" \/ rep.call = "failed"
SkippedBeforeTeardown == rep.setup = "skipped" \/ rep.call = "skipped"
KeepExpected ==
  /\ preferences.video.record
  /\ FailedBeforeTeardown \/ SkippedBeforeTeardown \/ preferences.video.keep_on_pass
AttachExpected ==
  preferences.video.record /\ (FailedBeforeTeardown \/ SkippedBeforeTeardown)
\* the sanitized node ids, written out
SanitizedNodeIds ==
  << <<"t","_","a","_","_","T","_","a","_","b","_">>,
     <<"t","_","v",".","p","y","_","_","T","-","x">> >>
SanitizedNodeId == SanitizedNodeIds[((testNo + Len(NodeIds) - 1) % Len(NodeIds)) + 1]
VideoPath == <<DefaultArtifactsRoot, "videos", SanitizedNodeId \o ExtWebm>>
TracePath == <<DefaultArtifactsRoot, "traces", SanitizedNodeId \o ExtZip>>
\* the page of the finished test had a video handle and its teardown read it
HandleFinalized == TeardownOver /\ td.page_ran /\ td.video_obj # "None"

\* C1 (as claimed): by the end of teardown a video handle has been either
\* persisted (save_as) exactly once or deleted (delete) exactly once, never
\* both and never neither.  Stated for the teardowns in which no call raised.
C1_EitherSavedOrDeleted ==
  (HandleFinalized /\ \A i \in 1..Len(log) : log[i].ok) =>
    \/ CountOk("video.save_as") = 1 /\ CountOk("video.delete") = 0
    \/ CountOk("video.save_as") = 0 /\ CountOk("video.delete") = 1

\* C1 (amended): by the end of teardown save_as and delete have each been
\* called at most once on the handle and save_as only for a kept video; when
\* finalization does not raise the handle has been deleted exactly once, after
\* being saved exactly once iff the video is kept (a kept video is both
\* persisted and deleted); when finalization raises the handle is not deleted.
C1_SavedThenDeleted ==
  HandleFinalized =>
    /\ Count("video.save_as") <= 1
    /\ Count("video.delete") <= 1
    /\ Count("video.save_as") = 1 => KeepExpected
    /\ \A i \in Idx("video.save_as"), j \in Idx("video.delete") : i < j /\ log[i].ok
    /\ ~td.page_raised =>
         /\ CountOk("video.delete") = 1
         /\ CountOk("video.save_as") = (IF KeepExpected THEN 1 ELSE 0)
    /\ td.page_raised => CountOk("video.delete") = 0
C1_Witness ==
  /\ HandleFinalized
  /\ KeepExpected
  /\ CountOk("video.save_as") = 1
  /\ CountOk("video.delete") = 1

\* the teardown steps in the order the specification gives them
SpecRank(op) ==
  IF op \in {"ensure_dir(screenshots)", "page.screenshot", "allure.attach(png)",
             "page.content", "allure.attach(html)"} THEN 1
  ELSE IF op = "page.close" THEN 2
  ELSE IF op = "tracing.stop" THEN 3
  ELSE IF op = "context.close" THEN 4
  ELSE IF op \in {"video.save_as", "allure.attach.file", "video.delete"} THEN 5
  ELSE 0
\* the teardown steps in the order the fixtures run them
CodeRank(op) ==
  IF SpecRank(op) = 5 THEN 3
  ELSE IF SpecRank(op) \in {3, 4} THEN SpecRank(op) + 1
  ELSE SpecRank(op)

\* C2 (as claimed): teardown runs diagnostic capture, page close, tracing
\* stop, context close, video finalization in this order; the video is
\* finalized only after tracing was stopped and the context was closed.
C2_VideoFinalizedLast ==
  LET steps == SelectSeq(log, LAMBDA e : SpecRank(e.op) > 0)
  IN \A i \in 1..(Len(steps) - 1) : SpecRank(steps[i].op) <= SpecRank(steps[i + 1].op)

\* C2 (amended): teardown runs diagnostic capture, page close, video
\* finalization, tracing stop, context close in this order; the video is
\* finalized after the page was closed and before tracing is stopped and the
\* context is closed.
C2_VideoFinalizedBeforeContext ==
  LET steps == SelectSeq(log, LAMBDA e : CodeRank(e.op) > 0)
  IN /\ \A i \in 1..(Len(steps) - 1) : CodeRank(steps[i].op) <= CodeRank(steps[i + 1].op)
     /\ \A i \in 1..Len(steps) :
          CodeRank(steps[i].op) = 3 =>
            /\ \E j \in 1..(i - 1) : steps[j].op = "page.close"
            /\ TeardownOver => steps[Len(steps)].op = "context.close"
C2_Witness ==
  /\ TeardownOver
  /\ SelectSeq(log, LAMBDA e : e.op \in {"page.screenshot", "page.close", "video.save_as",
                                          "tracing.stop", "context.close"})
       = <<Ev("page.screenshot", TRUE, <<DefaultArtifactsRoot, "screenshots",
                                         SanitizedNodeId \o ExtPng>>),
           Ev("page.close", TRUE, <<>>),
           Ev("video.save_as", TRUE, VideoPath),
           Ev("tracing.stop", TRUE, TracePath),
           Ev("context.close", TRUE, <<>>)>>

\* C3 (as claimed): whenever tracing was started for a test's context, the
\* trace is saved to <artifacts>/traces/<sanitized nodeid>.zip iff
\* retain-on-failure is not set or the test failed.
C3_TraceSavedIffFailed ==
  (pc = "protocol" /\ tracing_started) =>
    ((\E i \in Idx("tracing.stop") : log[i].path = TracePath)
       <=> (~preferences.trace.retain_on_failure \/ \E w \in Phases : rep[w] = "failed"))

\* C4: with recording enabled and a video handle, the video is saved iff
\* failedAny or skippedAny or keepOnPass and attached iff failedAny or
\* skippedAny; a video that is not kept is deleted.
C4_KeepAndAttachDecision ==
  (HandleFinalized /\ preferences.video.record) =>
    /\ td.keep = KeepExpected
    /\ td.attach_on_keep = AttachExpected
    /\ Count("video.save_as") > 0 => KeepExpected
    /\ Count("allure.attach.file") > 0 => AttachExpected
    /\ \A i \in Idx("video.save_as") \cup Idx("allure.attach.file") : log[i].path = VideoPath
    /\ ~KeepExpected => Count("video.delete") = 1
    /\ ~td.page_raised =>
         /\ CountOk("video.save_as") = 1 <=> KeepExpected
         /\ CountOk("allure.attach.file") = 1 <=> AttachExpected
C4_Witness ==
  /\ HandleFinalized
  /\ preferences.video.record /\ ~preferences.video.keep_on_pass
  /\ rep.call = "failed"
  /\ CountOk("video.save_as") = 1
  /\ CountOk("allure.attach.file") = 1


\* C5: when a teardown step (screenshot capture, HTML capture, page close,
\* video finalization, tracing stop, context close) raises, every step that
\* follows it in the teardown is still attempted.
C5_LaterStepsAttempted ==
  (TeardownOver /\ td.page_ran) =>
    /\ (FailedBeforeTeardown \/ SkippedBeforeTeardown) =>
         /\ Count("ensure_dir(screenshots)") = 1
         /\ Count("page.content") = 1
    /\ Count("page.close") = 1
    /\ td.fin_called = (preferences.video.record \/ td.video_obj # "None")
    /\ td.video_obj # "None" =>
         Count("video.save_as") + Count("video.delete") > 0
         \/ \E i \in Idx("ensure_dir(videos)") : ~log[i].ok
    /\ td.context_ran
    /\ tracing_started => Count("tracing.stop") = 1
    /\ Count("context.close") = 1
C5_Witness ==
  /\ TeardownOver
  /\ \E i \in Idx("page.close") : ~log[i].ok
  /\ Count("video.delete") = 1
  /\ Count("tracing.stop") = 1
  /\ Count("context.close") = 1

\* C6 (as claimed): no failure of screenshot capture, HTML capture, video
\* save/attach/delete or trace save propagates out of the fixtures: the
\* teardown of the page and context fixtures completes without raising and
\* the teardown phase does not fail.
C6_TeardownNeverRaises ==
  /\ ~td.page_raised
  /\ ~td.context_raised
  /\ rep.teardown # "failed"

\* C7 (as claimed): the failedAny value used for the screenshot, video and
\* trace decisions is true iff any of the three phases (setup, call,
\* teardown) failed, a failure in the teardown phase alone included.
C7_FailedAnySeesEveryPhase ==
  (pc = "protocol" /\ td.page_ran) =>
    /\ td.failed_any = (\E w \in Phases : rep[w] = "failed")
    /\ td.used_failed = (\E w \in Phases : rep[w] = "failed")

\* C8: whenever a context was created, context.close() is attempted exactly
\* once on every exit path (the test passed, failed or was skipped, tracing
\* start or tracing stop raised), and no failure of tracing stop or of close
\* leaves the context fixture's teardown.
C8_ContextClosedOnce ==
  /\ context.state = "none" => Count("context.close") = 0
  /\ context.state = "open" => Count("context.close") = 0 /\ ~TeardownOver
  /\ context.state = "closed" => Count("context.close") = 1
  /\ Count("browser.new_context") = 1 /\ log[CHOOSE i \in Idx("browser.new_context") : TRUE].ok
       => context.state # "none"
  /\ ~td.context_raised
C8_Witness ==
  /\ context.state = "closed"
  /\ \E i \in Idx("tracing.stop") : ~log[i].ok
  /\ Count("context.close") = 1
  /\ rep.call = "passed"

\* the calls finalize_video_artifact made
FinalizeCalls ==
  SelectSeq(log, LAMBDA e : e.op \in {"video.save_as", "allure.attach.file", "video.delete"})
\* C9: finalize_video_artifact(video, nodeid, keep, attach_on_keep): with no
\* handle it saves, attaches and deletes nothing and returns None; with keep
\* it saves the video to <artifacts>/videos/<sanitized nodeid>.webm, attaches
\* that file iff attach_on_keep, deletes the handle and returns the path;
\* without keep it deletes the handle, saves and attaches nothing and returns
\* None.
C9_FinalizeContract ==
  (TeardownOver /\ td.fin_called) =>
    /\ td.video_obj = "None" => FinalizeCalls = <<>> /\ td.ret = <<>>
    /\ (td.video_obj # "None" /\ td.keep /\ ~td.page_raised) =>
         /\ FinalizeCalls =
              <<Ev("video.save_as", TRUE, VideoPath)>>
              \o (IF td.attach_on_keep
                    THEN <<Ev("allure.attach.file", TRUE, VideoPath)>> ELSE <<>>)
              \o <<Ev("video.delete", TRUE, <<>>)>>
         /\ td.ret = VideoPath
    /\ (td.video_obj # "None" /\ ~td.keep) =>
         /\ Len(FinalizeCalls) = 1
         /\ FinalizeCalls[1].op = "video.delete"
         /\ td.ret = <<>>
C9_Witness ==
  /\ TeardownOver /\ td.fin_called
  /\ td.keep /\ td.attach_on_keep
  /\ td.ret = VideoPath
  /\ Len(FinalizeCalls) = 3

\* C10 (as claimed): when --base-url is given and APP_BASE_HOST is unset, the
\* app_config, context and page fixtures and every get_artifact_path call
\* complete without a configuration error.
C10_BaseUrlSuffices ==
  (Truthy(opt.base_url) /\ ~Truthy(environ.APP_BASE_HOST)) =>
    /\ app_cfg # "skip"
    /\ ~td.cfg_err

\* C11 (as claimed): when the admin host configuration a fixture needs is
\* missing, get_app_config's ValueError ends the test's setup in a skip: it
\* never surfaces from a fixture as an error of the setup phase.
C11_MissingHostSkips ==
  (rep.setup # "None" /\ (app_cfg = "skip" \/ td.cfg_err)) => rep.setup = "skipped"

\* an earlier test of the session failed or was skipped
EarlierFailedOrSkipped ==
  \E i \in 1..Len(durations) : durations[i] \in {"failed", "skipped"}
\* the running test passed its setup and its call
PassedBeforeTeardown == rep.setup = "passed" /\ rep.call = "passed"

\* C12: every test gets a new context whose last_failed is false until the
\* test's own page teardown sets it, and the artifacts of a test that passed
\* are decided by the session preferences alone, whatever the earlier tests of
\* the session did: no screenshot, no page source, no attached video, a saved
\* video only under keep-on-pass, a saved trace only when tracing is not
\* retain-on-failure.
C12_NoCrossTestLeak ==
  /\ (context.state = "open" /\ ~td.page_ran) => ~context.last_failed
  /\ (TeardownOver /\ PassedBeforeTeardown) =>
       /\ td.page_ran /\ td.context_ran
       /\ ~td.failed_any /\ ~td.skipped_any /\ ~td.used_failed
       /\ Count("page.screenshot") = 0
       /\ Count("page.content") = 0
       /\ Count("allure.attach.file") = 0
       /\ Count("video.save_as") > 0 => preferences.video.keep_on_pass
       /\ \A i \in Idx("tracing.stop") :
            log[i].path # <<>> => ~preferences.trace.retain_on_failure
\* a test that passed after a failed one, with recording and retain-on-failure
\* tracing: its video is deleted unsaved and its trace is discarded
C12_Witness ==
  /\ TeardownOver /\ PassedBeforeTeardown
  /\ testNo = 2 /\ EarlierFailedOrSkipped
  /\ preferences.video.record /\ ~preferences.video.keep_on_pass
  /\ preferences.trace.retain_on_failure
  /\ td.video_obj = "video"
  /\ CountOk("video.delete") = 1 /\ Count("video.save_as") = 0
  /\ \E i \in Idx("tracing.stop") : log[i].ok /\ log[i].path = <<>>

\* ------------------------------------------- preference resolution on its own
\* A session that sets up artifact_preferences only: the CLI flags and the three
\* PLAYWRIGHT_* variables range over recognised, decorated and unrecognised
\* values.
\* os.getenv("PLAYWRIGHT_VIDEO")
PrefsEnvVideos ==
  {Unset, Some(<<>>), Some(<<"k","e","e","p">>), Some(<<" ","K","e","e","p","\n">>),
   Some(<<"a","l","l">>), Some(<<"A","L","W","A","Y","S">>), Some(<<"1">>),
   Some(<<"t","r","u","e">>), Some(<<"0">>), Some(<<"o","f","f">>), Some(<<"N","o">>),
   Some(<<"m","a","y","b","e">>),
   Some(<<"r","e","t","a","i","n","-","o","n","-","f","a","i","l","u","r","e">>),
   Some(<<" "," ">>)}
\* os.getenv("PLAYWRIGHT_KEEP_VIDEO_ON_PASS")
PrefsEnvKeeps ==
  {Unset, Some(<<>>), Some(<<"1">>), Some(<<"y","e","s">>), Some(<<"0">>),
   Some(<<"f","a","l","s","e">>), Some(<<" ","O","F","F"," ">>),
   Some(<<"k","e","e","p">>), Some(<<"m","a","y","b","e">>)}
\* os.getenv("PLAYWRIGHT_TRACE")
PrefsEnvTraces ==
  {Unset, Some(<<>>), Some(<<"o","f","f">>), Some(<<"o","n">>),
   Some(<<"r","e","t","a","i","n","-","o","n","-","f","a","i","l","u","r","e">>),
   Some(<<" ","R","e","t","a","i","n","-","O","n","-","F","a","i","l","u","r","e"," ">>),
   Some(<<"1">>), Some(<<"t","r","u","e">>), Some(<<"e","n","a","b","l","e","d">>),
   Some(<<"y","e","s">>),
   Some(<<"0">>), Some(<<"f","a","l","s","e">>), Some(<<"n","o">>),
   Some(<<"d","i","s","a","b","l","e","d">>), Some(<<"k","e","e","p">>),
   Some(<<"a","l","l">>), Some(<<"a","l","w","a","y","s">>),
   Some(<<"m","a","y","b","e">>)}

InitPrefs ==
  /\ opt \in [video : BOOLEAN, keep_video_on_pass : BOOLEAN,
              pw_trace : TRACE_MODES, base_url : {Some(DefaultBaseUrl)}]
  /\ environ \in [PLAYWRIGHT_VIDEO : PrefsEnvVideos,
                  PLAYWRIGHT_KEEP_VIDEO_ON_PASS : PrefsEnvKeeps,
                  PLAYWRIGHT_TRACE : PrefsEnvTraces,
                  APP_BASE_HOST : {Some(AdminHost)},
                  ARTIFACTS_ROOT : {Unset}]
  /\ pc = "preferences"
  /\ NothingRun
  /\ NothingParsed
  /\ NothingNamed
  /\ NothingCalled
  /\ NothingMonitored
NextPrefs == PreferencesFixture
SpecPrefs == InitPrefs /\ [][NextPrefs]_vars

\* artifact_preferences has returned
Resolved == preferences.resolved
\* the value of an environment variable after strip() and lower(), written out
\* for the values of the three sets above
IsText(o, words) == o.set /\ o.val \in words

\* The values used above, classified by hand: what each one reads as once
\* surrounding whitespace and letter case are ignored.
\* 1, true, yes, on, enabled
ReadAsTrue ==
  {Some(<<"1">>), Some(<<"e","n","a","b","l","e","d">>), Some(<<"o","n">>),
   Some(<<"t","r","u","e">>), Some(<<"y","e","s">>)}
\* 0, false, no, off, disabled
ReadAsFalse ==
  {Some(<<"0">>), Some(<<"f","a","l","s","e">>), Some(<<"N","o">>),
   Some(<<"n","o">>), Some(<<"d","i","s","a","b","l","e","d">>),
   Some(<<" ","O","F","F"," ">>), Some(<<"o","f","f">>)}
\* all, always, keep
ReadAsKeep ==
  {Some(<<"a","l","l">>), Some(<<"A","L","W","A","Y","S">>),
   Some(<<"a","l","w","a","y","s">>),
   Some(<<" ","K","e","e","p","\n">>), Some(<<"k","e","e","p">>)}
\* the trace mode off
ReadAsOff ==
  {Some(<<" ","O","F","F"," ">>), Some(<<"o","f","f">>)}
\* the trace mode on
ReadAsOn ==
  {Some(<<"o","n">>)}
\* the trace mode retain-on-failure
ReadAsRetain ==
  {
   Some(<<" ","R","e","t","a","i","n","-","O","n","-","F","a","i","l","u","r","e"," ">>),
   Some(<<"r","e","t","a","i","n","-","o","n","-","f","a","i","l","u","r","e">>)}
\* unset or empty
Absent == {Unset, Some(<<>>)}
\* the variables as read by os.getenv
EnvVideo == environ.PLAYWRIGHT_VIDEO
EnvKeep == environ.PLAYWRIGHT_KEEP_VIDEO_ON_PASS
EnvTrace == environ.PLAYWRIGHT_TRACE
VideoIsKeep == EnvVideo = Some(<<"k","e","e","p">>)

\* C13 (as claimed): with PLAYWRIGHT_VIDEO=keep the resolved video preferences
\* have record = true and keepOnPass = true, whatever the flags and the other
\* environment variables are.
C13_KeepAlwaysKeeps ==
  (Resolved /\ VideoIsKeep) =>
    preferences.video.record /\ preferences.video.keep_on_pass

\* C13 (amended): with PLAYWRIGHT_VIDEO=keep the resolved video preferences have
\* record = true whatever the flags and the other variables are, and keepOnPass
\* = true unless PLAYWRIGHT_KEEP_VIDEO_ON_PASS reads as false, which makes it
\* false.
C13_KeepUnlessOverridden ==
  (Resolved /\ VideoIsKeep) =>
    /\ preferences.video.record
    /\ preferences.video.keep_on_pass <=> EnvKeep \notin ReadAsFalse
\* PLAYWRIGHT_VIDEO=keep without either flag and under
\* PLAYWRIGHT_KEEP_VIDEO_ON_PASS=0: recording is on, keepOnPass is false
C13_Witness ==
  /\ Resolved /\ VideoIsKeep
  /\ ~opt.video /\ ~opt.keep_video_on_pass
  /\ EnvKeep = Some(<<"0">>)
  /\ preferences.video.record /\ ~preferences.video.keep_on_pass

\* C14: record and keepOnPass start from --video and --keep-video-on-pass; a
\* non-empty PLAYWRIGHT_VIDEO that reads as a boolean sets record to it, one
\* that reads as all, always or keep sets record and keepOnPass to true, any
\* other non-empty one sets record to true; then a PLAYWRIGHT_KEEP_VIDEO_ON_PASS
\* that reads as a boolean replaces keepOnPass whatever PLAYWRIGHT_VIDEO was,
\* and any other leaves it.
C14_VideoResolution ==
  Resolved =>
    /\ preferences.video.record =
         IF EnvVideo \in Absent THEN opt.video
         ELSE IF EnvVideo \in ReadAsTrue THEN TRUE
         ELSE IF EnvVideo \in ReadAsFalse THEN FALSE
         ELSE TRUE
    /\ preferences.video.keep_on_pass =
         IF EnvKeep \in ReadAsTrue THEN TRUE
         ELSE IF EnvKeep \in ReadAsFalse THEN FALSE
         ELSE IF EnvVideo \in ReadAsKeep THEN TRUE
         ELSE opt.keep_video_on_pass
\* --video is switched off by PLAYWRIGHT_VIDEO=No and keepOnPass, not given on
\* the command line, is switched on by PLAYWRIGHT_KEEP_VIDEO_ON_PASS=yes
C14_Witness ==
  /\ Resolved
  /\ opt.video /\ EnvVideo = Some(<<"N","o">>)
  /\ ~opt.keep_video_on_pass /\ EnvKeep = Some(<<"y","e","s">>)
  /\ ~preferences.video.record /\ preferences.video.keep_on_pass

\* the mode a PLAYWRIGHT_TRACE value names, <<>> when it names none
NamedMode ==
  IF EnvTrace \in ReadAsOff THEN ModeOff
  ELSE IF EnvTrace \in ReadAsOn THEN ModeOn
  ELSE IF EnvTrace \in ReadAsRetain THEN ModeRetain
  ELSE <<>>
\* the mode as the claim resolves it
ClaimedMode ==
  IF EnvTrace \in Absent THEN opt.pw_trace
  ELSE IF NamedMode # <<>> THEN NamedMode
  ELSE IF EnvTrace \in ReadAsTrue
    THEN (IF EnvTrace \in ReadAsKeep THEN ModeRetain ELSE ModeOn)
  ELSE opt.pw_trace

\* C15: the trace mode starts from --pw-trace; a PLAYWRIGHT_TRACE that names a
\* mode replaces it; otherwise one that reads as a true boolean makes it
\* retain-on-failure when it is in the keep set and on when it is not; then
\* enabled = (mode != off) and retainOnFailure = (mode == retain-on-failure).
C15_TraceResolution ==
  Resolved =>
    /\ preferences.trace.enabled = (ClaimedMode # ModeOff)
    /\ preferences.trace.retain_on_failure = (ClaimedMode = ModeRetain)
\* --pw-trace=retain-on-failure with PLAYWRIGHT_TRACE=enabled: tracing is on and
\* every trace is kept
C15_Witness ==
  /\ Resolved
  /\ opt.pw_trace = ModeRetain
  /\ EnvTrace = Some(<<"e","n","a","b","l","e","d">>)
  /\ preferences.trace.enabled /\ ~preferences.trace.retain_on_failure

\* an ArtifactPreferences value
ArtifactPreferencesValues ==
  [resolved : {TRUE},
   video : [record : BOOLEAN, keep_on_pass : BOOLEAN],
   trace : [enabled : BOOLEAN, retain_on_failure : BOOLEAN]]
\* values that are neither absent nor read as a boolean, a keep word or a mode
VideoUnrecognised ==
  EnvVideo \notin Absent \cup ReadAsTrue \cup ReadAsFalse \cup ReadAsKeep
KeepUnrecognised == EnvKeep \notin Absent \cup ReadAsTrue \cup ReadAsFalse
TraceUnrecognised ==
  EnvTrace \notin Absent \cup ReadAsTrue \cup ReadAsFalse
                  \cup ReadAsOff \cup ReadAsOn \cup ReadAsRetain
\* the preferences the command line alone gives
CliTrace == [enabled |-> opt.pw_trace # ModeOff,
             retain_on_failure |-> opt.pw_trace = ModeRetain]

\* C17 (as claimed): for every value of the three variables and every flag
\* combination the resolution returns an ArtifactPreferences value, and a
\* variable whose value is not recognised leaves its preference at what the
\* command line gives.
C17_UnrecognisedKeepsDefault ==
  Resolved =>
    /\ preferences \in ArtifactPreferencesValues
    /\ VideoUnrecognised => preferences.video.record = opt.video
    /\ (KeepUnrecognised /\ EnvVideo \in Absent) =>
         preferences.video.keep_on_pass = opt.keep_video_on_pass
    /\ TraceUnrecognised => preferences.trace = CliTrace

\* C17 (amended): the resolution always returns an ArtifactPreferences value; an
\* unrecognised PLAYWRIGHT_KEEP_VIDEO_ON_PASS or PLAYWRIGHT_TRACE leaves
\* keepOnPass and the trace preferences at what the command line gives, but an
\* unrecognised non-empty PLAYWRIGHT_VIDEO turns recording on whatever --video
\* is (and leaves keepOnPass alone).
C17_UnrecognisedVideoRecords ==
  Resolved =>
    /\ preferences \in ArtifactPreferencesValues
    /\ VideoUnrecognised => preferences.video.record
    /\ (VideoUnrecognised /\ (KeepUnrecognised \/ EnvKeep \in Absent)) =>
         preferences.video.keep_on_pass = opt.keep_video_on_pass
    /\ (KeepUnrecognised /\ EnvVideo \in Absent) =>
         preferences.video.keep_on_pass = opt.keep_video_on_pass
    /\ TraceUnrecognised => preferences.trace = CliTrace
\* no flag given and all three variables unrecognised: recording is on, nothing
\* else changes
C17_Witness ==
  /\ Resolved
  /\ ~opt.video /\ ~opt.keep_video_on_pass /\ opt.pw_trace = ModeOn
  /\ VideoUnrecognised /\ KeepUnrecognised /\ TraceUnrecognised
  /\ preferences.video.record /\ ~preferences.video.keep_on_pass
  /\ preferences.trace = CliTrace

\* ------------------------------------------------- _parse_bool on its own
\* _parse_bool is applied to one value: absent, or a word written plain, in
\* upper case, capitalised, or surrounded by whitespace.
\* words outside both sets
OtherWords ==
  {<<>>, <<"2">>, <<"y">>, <<"t","r","u">>, <<"t","r","u","e","e">>, <<"o"," ","n">>,
   <<"o","f"," ","f">>, <<"y","e","s","!">>, <<"n","o","p","e">>,
   <<"e","n","a","b","l","e">>, <<"k","e","e","p">>,
   <<"r","e","t","a","i","n","-","o","n","-","f","a","i","l","u","r","e">>}
ParseWords == TRUTHY_VALUES \cup FALSY_VALUES \cup OtherWords
\* str.upper() on one character
UpperChar(c) ==
  IF c \in Range(LowerChars)
    THEN UpperChars[CHOOSE i \in 1..Len(LowerChars) : LowerChars[i] = c]
    ELSE c
StrUpper(s) == [i \in 1..Len(s) |-> UpperChar(s[i])]
Capitalised(s) == [i \in 1..Len(s) |-> IF i = 1 THEN UpperChar(s[i]) ELSE s[i]]
Padded(s) == <<" ">> \o s \o <<"\t", "\n">>
ParseInputs ==
  {Unset} \cup {Some(w) : w \in ParseWords}
          \cup {Some(StrUpper(w)) : w \in ParseWords}
          \cup {Some(Capitalised(w)) : w \in ParseWords}
          \cup {Some(Padded(w)) : w \in ParseWords}
          \cup {Some(Padded(StrUpper(w))) : w \in ParseWords}

\* the command line without any option and an environment with the host only
DefaultOpt == [video |-> FALSE, keep_video_on_pass |-> FALSE, pw_trace |-> ModeOff,
               base_url |-> Some(DefaultBaseUrl)]
HostOnlyEnv == [PLAYWRIGHT_VIDEO |-> Unset, PLAYWRIGHT_KEEP_VIDEO_ON_PASS |-> Unset,
                PLAYWRIGHT_TRACE |-> Unset, APP_BASE_HOST |-> Some(AdminHost),
                ARTIFACTS_ROOT |-> Unset]

InitParse ==
  /\ value \in ParseInputs
  /\ parsed = "None"
  /\ pc = "parse"
  /\ opt = DefaultOpt
  /\ environ = HostOnlyEnv
  /\ NothingRun
  /\ NothingNamed
  /\ NothingCalled
  /\ NothingMonitored
\* parsed = _parse_bool(value)
ParseBool ==
  /\ pc = "parse"
  /\ parsed' = _parse_bool(value)
  /\ pc' = "parsed"
  /\ UNCHANGED <<opt, environ, fixtures, log, monitoring, value, text, names, waiting,
                 returned>>
NextParse == ParseBool
SpecParse == InitParse /\ [][NextParse]_vars

\* s is the word w surrounded by whitespace, each letter in either case
ReadsAs(s, w) ==
  \E i \in 0..Len(s) :
    /\ i + Len(w) <= Len(s)
    /\ \A k \in 1..i : s[k] \in WhiteSpace
    /\ \A k \in (i + Len(w) + 1)..Len(s) : s[k] \in WhiteSpace
    /\ \A k \in 1..Len(w) : s[i + k] \in {w[k], UpperChar(w[k])}
\* the truthy set of the claim
ClaimedTruthy ==
  {<<"1">>, <<"t","r","u","e">>, <<"y","e","s">>, <<"o","n">>,
   <<"e","n","a","b","l","e","d">>}
\* the falsy set of the claim
ClaimedFalsy ==
  {<<"0">>, <<"f","a","l","s","e">>, <<"n","o">>, <<"o","f","f">>,
   <<"d","i","s","a","b","l","e","d">>}

\* C16: _parse_bool returns true iff its argument, trimmed of surrounding
\* whitespace and lower-cased, is one of 1, true, yes, on, enabled; false iff
\* it is one of 0, false, no, off, disabled; and undecided for every other
\* string and for an absent value.
C16_ParseBool ==
  pc = "parsed" =>
    /\ parsed = "True" <=>
         value.set /\ \E w \in ClaimedTruthy : ReadsAs(value.val, w)
    /\ parsed = "False" <=>
         value.set /\ \E w \in ClaimedFalsy : ReadsAs(value.val, w)
    /\ parsed \in {"True", "False", "None"}
\* " DISABLED\t\n" parses as false
C16_Witness ==
  /\ pc = "parsed"
  /\ value = Some(<<" ","D","I","S","A","B","L","E","D","\t","\n">>)
  /\ parsed = "False"

\* ------------------------------------------------ safe_filename on its own
\* safe_filename is applied to one text, and the artifact file names of a test
\* with that node id are built as the fixtures build them.
FileChars == {"a", "z", "A", "Z", "0", "9", ".", "_", "-", "/", ":", " ", "["}
Texts == UNION {[1..n -> FileChars] : n \in 0..MaxLen} \cup Range(NodeIds)

InitFiles ==
  /\ text \in Texts
  /\ names = NoNames
  /\ pc = "name"
  /\ opt = DefaultOpt
  /\ environ = HostOnlyEnv
  /\ NothingRun
  /\ NothingParsed
  /\ NothingCalled
  /\ NothingMonitored
\* the path given to the call op among the events, <<>> when it was not called
PathOf(events, op) ==
  LET at == {i \in 1..Len(events) : events[i].op = op}
  IN IF at = {} THEN <<>> ELSE events[CHOOSE i \in at : TRUE].path
\* safe_filename(text), and the paths that the page teardown, the video
\* finalizer and the context teardown build for the node id text
BuildNames ==
  /\ pc = "name"
  /\ names' =
       [safe |-> safe_filename(text),
        screenshot |-> PathOf(capture_screenshot(text, environ, {}).events,
                              "page.screenshot"),
        video |-> PathOf(finalize_video_artifact("video", text, TRUE, FALSE,
                                                 environ, {}).events,
                         "video.save_as"),
        trace |-> _trace_path(text, environ).path]
  /\ pc' = "named"
  /\ UNCHANGED <<opt, environ, fixtures, log, monitoring, value, parsed, text, waiting,
                 returned>>
NextFiles == BuildNames
SpecFiles == InitFiles /\ [][NextFiles]_vars

\* the characters of the texts that are outside [A-Za-z0-9._-]
UnsafeChars == {"/", ":", " ", "[", "]"}

\* C18: safe_filename returns a text of the same length in which every
\* character of [A-Za-z0-9._-] is kept in place and every other character is
\* '_'; the screenshot, video and trace file names are this sanitized node id
\* followed by the extension.
C18_SafeFilename ==
  pc = "named" =>
    /\ Len(names.safe) = Len(text)
    /\ \A i \in 1..Len(text) :
         names.safe[i] = IF text[i] \in UnsafeChars THEN "_" ELSE text[i]
    /\ Range(names.safe) \cap UnsafeChars = {}
    /\ names.screenshot = <<DefaultArtifactsRoot, "screenshots", names.safe \o ExtPng>>
    /\ names.video = <<DefaultArtifactsRoot, "videos", names.safe \o ExtWebm>>
    /\ names.trace = <<DefaultArtifactsRoot, "traces", names.safe \o ExtZip>>
\* "t/a::T[a/b]" becomes "t_a__T_a_b_"
C18_Witness ==
  /\ pc = "named"
  /\ text = <<"t","/","a",":",":","T","[","a","/","b","]">>
  /\ names.safe = <<"t","_","a","_","_","T","_","a","_","b","_">>
  /\ names.video[3] = names.safe \o ExtWebm

\* ------------------------------------------------ pages/*.py on their own
\* A page-object operation, or the authenticated_storage_state fixture built on
\* them, is called once.  Each Playwright call of it ends normally ("ok"),
\* exceeds its timeout ("timeout": playwright TimeoutError) or fails otherwise
\* ("error": playwright Error).  T and E are the calls that end in the two
\* exceptions.
Ends == {"ok", "timeout", "error"}
Result(events, kind, v) == [events |-> events, kind |-> kind, value |-> v]
\* one Playwright call; kind is the exception that leaves it
Call(op, T, E) ==
  Result(<<Ev(op, op \notin T \cup E, <<>>)>>,
         IF op \in T THEN "TimeoutError" ELSE IF op \in E THEN "Error" ELSE "none",
         "None")
\* a; b
AndThen(a, b) ==
  IF a.kind # "none" THEN a ELSE Result(a.events \o b.events, b.kind, b.value)
\* try: r; return True / except PlaywrightTimeoutError: return False
TrueUnlessTimeout(r) ==
  IF r.kind = "none" THEN Result(r.events, "none", "True")
  ELSE IF r.kind = "TimeoutError" THEN Result(r.events, "none", "False")
  ELSE r

\* pages/login_page.py 91-97
wait_for_error(T, E) == TrueUnlessTimeout(Call("page.wait_for_selector", T, E))
\* pages/admin_page.py 51-61: except (Error, PlaywrightTimeoutError)
is_authenticated(T, E) ==
  LET r == Call("page.wait_for_selector", T, E)
  IN Result(r.events, "none", IF r.kind = "none" THEN "True" ELSE "False")
\* pages/book_demo_page.py 85-92
wait_for_loading_to_finish(T, E) ==
  LET r == Call("progress.wait_for", T, E)
  IN IF r.kind = "TimeoutError" THEN Result(r.events, "none", "None") ELSE r
\* pages/book_demo_page.py 69-77
wait_for_embed_ready(T, E) ==
  AndThen(wait_for_loading_to_finish(T, E),
          TrueUnlessTimeout(Call("heading.wait_for", T, E)))
\* pages/book_demo_page.py 151-172
wait_for_time_slots(frame_found, T, E) ==
  AndThen(wait_for_loading_to_finish(T, E),
          IF ~frame_found THEN Result(<<>>, "none", "False")
          ELSE TrueUnlessTimeout(Call("frame.wait_for_function", T, E)))
\* mutant: an exceeded wait is returned as None
wait_for_visible_or_none(T, E) ==
  LET r == Call("locator.wait_for", T, E)
  IN IF r.kind = "none" THEN Result(r.events, "none", "Locator")
     ELSE IF r.kind = "TimeoutError" THEN Result(r.events, "none", "None")
     ELSE r
\* pages/base_page.py 41-45
wait_for_visible(T, E) ==
  LET r == Call("locator.wait_for", T, E)
  IN IF r.kind = "none" THEN Result(r.events, "none", "Locator") ELSE r
\* pages/base_page.py 28-35, pages/admin_page.py 63-65
BasePage_open(T, E) == Call("page.goto", T, E)
\* pages/login_page.py 47-51, pages/book_demo_page.py 38-42
LoginPage_open(T, E) ==
  AndThen(BasePage_open(T, E),
          LET r == wait_for_visible(T, E) IN Result(r.events, r.kind, "None"))
\* pages/login_page.py 53-58
attempt_login(T, E) ==
  AndThen(Call("username.fill", T, E),
          AndThen(Call("password.fill", T, E), Call("submit.click", T, E)))
\* pytest_plugins/playwright.py 206-223, up to the yield
authenticated_storage_state(T, E) ==
  LET storage == Call("context.storage_state", T, E)
      close == Call("context.close", T, E)
  IN AndThen(Call("browser.new_context", T, E),
     AndThen(Call("context.new_page", T, E),
     AndThen(LoginPage_open(T, E),
     AndThen(attempt_login(T, E),
     AndThen(storage, Result(close.events, close.kind, "storage"))))))

\* the Playwright calls of each operation
Calls ==
  [wait_for_error |-> {"page.wait_for_selector"},
   is_authenticated |-> {"page.wait_for_selector"},
   wait_for_embed_ready |-> {"progress.wait_for", "heading.wait_for"},
   wait_for_time_slots |-> {"progress.wait_for", "frame.wait_for_function"},
   wait_for_visible |-> {"locator.wait_for"},
   BasePage_open |-> {"page.goto"},
   LoginPage_open |-> {"page.goto", "locator.wait_for"},
   authenticated_storage_state |->
     {"browser.new_context", "context.new_page", "page.goto", "locator.wait_for",
      "username.fill", "password.fill", "submit.click", "context.storage_state",
      "context.close"}]

InitPages ==
  /\ \E name \in DOMAIN Calls :
       waiting \in [name : {name}, ends : [Calls[name] -> Ends],
                    frame_found : IF name = "wait_for_time_slots"
                                    THEN BOOLEAN ELSE {TRUE}]
  /\ returned = NoReturn
  /\ pc = "call"
  /\ opt = DefaultOpt
  /\ environ = HostOnlyEnv
  /\ NothingRun
  /\ NothingParsed
  /\ NothingNamed
  /\ NothingMonitored

TimedOut == {c \in DOMAIN waiting.ends : waiting.ends[c] = "timeout"}
Errored == {c \in DOMAIN waiting.ends : waiting.ends[c] = "error"}
\* the operation returns or raises
Return(r) ==
  /\ returned' = [kind |-> r.kind, value |-> r.value]
  /\ log' = r.events
  /\ pc' = "returned"
  /\ UNCHANGED <<opt, environ, fixtures, monitoring, value, parsed, text, names,
                 waiting>>
Calling(name) == pc = "call" /\ waiting.name = name

CallWaitForError ==
  Calling("wait_for_error") /\ Return(wait_for_error(TimedOut, Errored))
CallIsAuthenticated ==
  Calling("is_authenticated") /\ Return(is_authenticated(TimedOut, Errored))
CallWaitForEmbedReady ==
  Calling("wait_for_embed_ready") /\ Return(wait_for_embed_ready(TimedOut, Errored))
CallWaitForTimeSlots ==
  /\ Calling("wait_for_time_slots")
  /\ Return(wait_for_time_slots(waiting.frame_found, TimedOut, Errored))
CallWaitForVisible ==
  Calling("wait_for_visible") /\ Return(wait_for_visible(TimedOut, Errored))
CallBasePageOpen ==
  Calling("BasePage_open") /\ Return(BasePage_open(TimedOut, Errored))
CallLoginPageOpen ==
  Calling("LoginPage_open") /\ Return(LoginPage_open(TimedOut, Errored))
SetUpAuthenticatedStorageState ==
  /\ Calling("authenticated_storage_state")
  /\ Return(authenticated_storage_state(TimedOut, Errored))

NextPages ==
  \/ CallWaitForError
  \/ CallIsAuthenticated
  \/ CallWaitForEmbedReady
  \/ CallWaitForTimeSlots
  \/ CallWaitForVisible
  \/ CallBasePageOpen
  \/ CallLoginPageOpen
  \/ SetUpAuthenticatedStorageState
SpecPages == InitPages /\ [][NextPages]_vars

\* the operation ended at a Playwright call that exceeded its timeout
WaitExceeded ==
  /\ log # <<>>
  /\ ~log[Len(log)].ok
  /\ log[Len(log)].op \in TimedOut
\* the operations the claim names
WaitOperations == {"wait_for_error", "is_authenticated", "wait_for_embed_ready",
                   "wait_for_time_slots", "wait_for_visible", "BasePage_open",
                   "LoginPage_open"}

\* C19 (as claimed): wait_for_error, is_authenticated, wait_for_embed_ready,
\* wait_for_time_slots, wait_for_visible and open report a wait that exceeded
\* its timeout as a False or None return value, never as a raised exception.
C19_ExceededWaitIsReturned ==
  (pc = "returned" /\ waiting.name \in WaitOperations /\ WaitExceeded) =>
    returned.kind = "none" /\ returned.value \in {"False", "None"}

\* the operations that catch the TimeoutError of their wait
CatchingOperations == {"wait_for_error", "is_authenticated", "wait_for_embed_ready",
                       "wait_for_time_slots"}

\* C19 (amended): wait_for_error, is_authenticated, wait_for_embed_ready and
\* wait_for_time_slots never raise a TimeoutError and return False when their
\* wait exceeded its timeout; wait_for_visible and open do not catch it: an
\* exceeded wait or navigation leaves them as a raised TimeoutError.
C19_CaughtOrRaised ==
  pc = "returned" =>
    /\ waiting.name \in CatchingOperations =>
         /\ returned.kind # "TimeoutError"
         /\ WaitExceeded => returned.kind = "none" /\ returned.value = "False"
    /\ (waiting.name \in WaitOperations \ CatchingOperations /\ WaitExceeded) =>
         returned.kind = "TimeoutError"
\* LoginPage.open: the navigation succeeds, the wait for the user name field
\* exceeds its timeout and the TimeoutError leaves open
C19_Witness ==
  /\ pc = "returned"
  /\ waiting.name = "LoginPage_open"
  /\ CountOk("page.goto") = 1
  /\ WaitExceeded
  /\ returned.kind = "TimeoutError"

\* C20 (as claimed): the temporary browser context that
\* authenticated_storage_state creates is closed on every exit path of the
\* fixture, also when opening the login page or logging in fails.
C20_TemporaryContextClosed ==
  (pc = "returned" /\ waiting.name = "authenticated_storage_state"
     /\ CountOk("browser.new_context") = 1) =>
    Count("context.close") = 1

\* ------------------------------------------------ the session, run to its end
\* pytest runs the phases of an item that it has started to their end: the
\* fixtures after context, the test function, the report hook and the two
\* finalizers are not postponed for ever.  PageTeardown is the only action
\* enabled at "page_teardown" and is always enabled there, so weak fairness of
\* it is stated on the step of pc it takes.
PageTeardownRuns == pc = "page_teardown" /\ pc' = "context_teardown"
FairSpec ==
  /\ Spec
  /\ WF_vars(PageSetup)
  /\ WF_vars(OtherFixtures)
  /\ WF_vars(TestCall)
  /\ WF_vars(pytest_runtest_makereport)
  /\ WF_pc(PageTeardownRuns)
  /\ WF_vars(ContextTeardown)

\* the calls that move the context through its states, in the claimed order
ContextRank(op) ==
  CASE op = "browser.new_context" -> 1
    [] op = "tracing.start" -> 2
    [] op = "tracing.stop" -> 3
    [] op = "context.close" -> 4
    [] OTHER -> 0
IsContextCall(e) == ContextRank(e.op) > 0
ContextCalls == SelectSeq(log, IsContextCall)
ContextCreated == CountOk("browser.new_context") = 1
ContextOrder ==
  /\ \A i \in 1..(Len(ContextCalls) - 1) :
       ContextRank(ContextCalls[i].op) < ContextRank(ContextCalls[i + 1].op)
  /\ Count("tracing.start") = (IF ContextCreated /\ preferences.trace.enabled THEN 1 ELSE 0)
  /\ Count("tracing.stop") <= CountOk("tracing.start")
  /\ Count("context.close") <= CountOk("browser.new_context")
  /\ TeardownOver =>
       /\ Count("tracing.stop") = CountOk("tracing.start")
       /\ Count("context.close") = CountOk("browser.new_context")

\* C21: the context of a test goes through creation, tracing start, use,
\* tracing stop and close in this order, each at most once; tracing is started
\* iff trace.enabled; a tracing stop is attempted exactly once iff the tracing
\* start succeeded; and every context that was created is eventually closed.
C21_ContextLifecycle ==
  /\ []ContextOrder
  /\ ContextCreated ~> (Count("context.close") = 1)
\* a test with tracing whose context went through all four calls
C21_Witness ==
  /\ TeardownOver
  /\ preferences.trace.enabled
  /\ Len(ContextCalls) = 4
  /\ \A i \in 1..4 : ContextRank(ContextCalls[i].op) = i /\ ContextCalls[i].ok
  /\ rep.call # "None"

\* ------------------------------------------------ the outcome the page teardown reads
\* the page teardown has run and the teardown report is not yet written: the
\* reports are the ones the teardown read
PageTeardownRead == td.page_ran /\ rep.teardown = "None"
SomePhaseSkipped == \E w \in Phases : rep[w] = "skipped"
SetupFailedWithoutCall == rep.call = "None" /\ rep.setup = "failed"

\* C22 (as stated): skippedAny is true iff some existing phase report is marked
\* skipped, or no call report exists and the setup report is marked failed.
C22_SkippedAnyOrSetupFailed ==
  PageTeardownRead => (td.skipped_any <=> (SomePhaseSkipped \/ SetupFailedWithoutCall))

\* C22 (amended): skippedAny is true iff some existing phase report is marked
\* skipped; a failed setup without a call report leaves it false.
C22_SkippedAny ==
  PageTeardownRead => (td.skipped_any <=> SomePhaseSkipped)
C22_Witness ==
  /\ PageTeardownRead
  /\ SetupFailedWithoutCall
  /\ ~td.skipped_any
  /\ td.failed_any

\* the context teardown has run and the teardown report is not yet written:
\* the reports are the ones a teardown of this test could read
ContextTeardownRead == td.context_ran /\ rep.teardown = "None"

\* C23 (as stated): last_failed is false from the creation of the context
\* until the page teardown sets it to the test's failedAny, and the value the
\* context teardown uses for the trace decision equals failedAny for every
\* test, whether or not the video finalization raised.
C23_LastFailedIsFailedAny ==
  /\ (context.state = "open" /\ ~td.page_ran) => ~context.last_failed
  /\ (td.page_ran /\ ~td.context_ran) => context.last_failed = td.failed_any
  /\ ContextTeardownRead => td.used_failed = failed_any(rep)

\* ------------------------------------------------ screenshot and page source
CaptureOps == {"ensure_dir(screenshots)", "page.screenshot", "allure.attach(png)",
               "page.content", "allure.attach(html)"}
CaptureExpected == FailedBeforeTeardown \/ SkippedBeforeTeardown
\* the screenshot block (lines 134-140) was entered, raised, took the screenshot
ScreenshotAttempts == Count("ensure_dir(screenshots)")
ScreenshotRaised ==
  \E i \in 1..Len(log) :
    ~log[i].ok /\ log[i].op \in {"ensure_dir(screenshots)", "page.screenshot",
                                 "allure.attach(png)"}

\* C24: in the page teardown the screenshot capture and the page-source
\* capture are each attempted once iff failedAny or skippedAny; a test whose
\* phases passed gets no screenshot file and no screenshot or page-source
\* attachment; the page source is captured even when the screenshot capture
\* raised.
C24_CaptureIffNeeded ==
  /\ ~td.page_ran => \A op \in CaptureOps : Count(op) = 0
  /\ td.page_ran =>
       /\ td.failed_any = FailedBeforeTeardown
       /\ td.skipped_any = SkippedBeforeTeardown
       /\ ScreenshotAttempts = (IF CaptureExpected THEN 1 ELSE 0)
       /\ Count("page.content") = (IF CaptureExpected THEN 1 ELSE 0)
       /\ Count("page.screenshot") = CountOk("ensure_dir(screenshots)")
       /\ Count("allure.attach(png)") = CountOk("page.screenshot")
       /\ Count("allure.attach(html)") = CountOk("page.content")
       /\ \A i \in Idx("page.screenshot") :
            log[i].path = FileIn(get_artifact_path("screenshots", environ).path,
                                 nodeid, ExtPng)
C24_Witness ==
  /\ td.page_ran
  /\ CaptureExpected
  /\ ScreenshotRaised
  /\ CountOk("page.content") = 1
  /\ CountOk("allure.attach(html)") = 1

\* ------------------------------------------------ the execution summary
\* the last item has been recorded: its reports are the ones the protocol hook
\* read
ItemRecorded == pc \in {"idle", "finished"} /\ testNo > 0
LastLabel == durations[Len(durations)]
Labelled(label) == Cardinality({i \in 1..Len(durations) : durations[i] = label})

\* C25: the outcome label of a test is the outcome of its call report when
\* that report exists; without a call report it is "failed" when the setup
\* report failed and "skipped" otherwise; a test that passed its call and
\* failed only in teardown is labelled passed and counted as passed.
C25_OutcomeLabel ==
  /\ ItemRecorded =>
       /\ Len(durations) = testNo
       /\ rep.call # "None" => LastLabel = rep.call
       /\ (rep.call = "None" /\ rep.setup = "failed") => LastLabel = "failed"
       /\ (rep.call = "None" /\ rep.setup # "failed") => LastLabel = "skipped"
       /\ (rep.call = "passed" /\ rep.teardown = "failed") => LastLabel = "passed"
  /\ summary.printed => summary.passed = Labelled("passed")
C25_Witness ==
  /\ pc = "finished"
  /\ rep.setup = "passed" /\ rep.call = "passed" /\ rep.teardown = "failed"
  /\ LastLabel = "passed"
  /\ summary.printed
  /\ summary.passed = testNo

\* ------------------------------------------------ a skipped test (xfail)
\* the page teardown ran for a test with a skipped report and no failed one
\* (the call of an xfail test that raised is reported as skipped)
SkippedNotFailed == td.page_ran /\ SkippedBeforeTeardown /\ ~FailedBeforeTeardown

\* C26: a test that is skipped but not failed has its screenshot and page
\* source captured and its video kept and attached, whatever keep-on-pass is;
\* its trace is discarded under retain-on-failure, because the trace decision
\* reads failedAny alone.
C26_SkippedKeepsVideoNotTrace ==
  SkippedNotFailed =>
    /\ td.skipped_any /\ ~td.failed_any
    /\ ~context.last_failed
    /\ ScreenshotAttempts = 1
    /\ Count("page.content") = 1
    /\ preferences.video.record => td.fin_called /\ td.keep /\ td.attach_on_keep
    /\ (preferences.video.record /\ td.video_obj # "None" /\ ~td.page_raised) =>
         /\ CountOk("video.save_as") = 1
         /\ CountOk("allure.attach.file") = 1
         /\ \A i \in Idx("video.save_as") \cup Idx("allure.attach.file") :
              log[i].path = VideoPath
    /\ (TeardownOver /\ tracing_started) =>
         /\ Count("tracing.stop") = 1
         /\ \A i \in Idx("tracing.stop") :
              log[i].path = (IF preferences.trace.retain_on_failure
                               THEN <<>> ELSE TracePath)
C26_Witness ==
  /\ TeardownOver
  /\ rep.setup = "passed" /\ rep.call = "skipped"
  /\ preferences.video.record /\ ~preferences.video.keep_on_pass
  /\ preferences.trace.retain_on_failure
  /\ CountOk("page.screenshot") = 1
  /\ CountOk("page.content") = 1
  /\ CountOk("video.save_as") = 1
  /\ CountOk("allure.attach.file") = 1
  /\ \E i \in Idx("tracing.stop") : log[i].ok /\ log[i].path = <<>>

\* ------------------------------------------------ PLAYWRIGHT_TRACE and --pw-trace
\* the resolved trace mode, read back from the preferences
ResolvedMode ==
  IF ~preferences.trace.enabled THEN ModeOff
  ELSE IF preferences.trace.retain_on_failure THEN ModeRetain
  ELSE ModeOn
\* 1, true, yes, enabled
TraceSwitchedOn ==
  EnvTrace \in {Some(<<"1">>), Some(<<"t","r","u","e">>), Some(<<"y","e","s">>),
                Some(<<"e","n","a","b","l","e","d">>)}
\* 0, false, no, disabled
TraceFalsyNotOff ==
  EnvTrace \in {Some(<<"0">>), Some(<<"f","a","l","s","e">>), Some(<<"n","o">>),
                Some(<<"d","i","s","a","b","l","e","d">>)}
\* all, always, keep
TraceKeepWord ==
  EnvTrace \in {Some(<<"a","l","l">>), Some(<<"a","l","w","a","y","s">>),
                Some(<<"k","e","e","p">>)}

\* C27: PLAYWRIGHT_TRACE changes the trace mode only to the mode it names
\* (off, on, retain-on-failure) or to on when it is 1, true, yes or enabled;
\* every other value, the falsy 0, false, no, disabled and the keep words all,
\* always, keep included, leaves the --pw-trace mode as it is, so a falsy value
\* other than off never disables tracing that the command line enabled.
C27_TraceEnvOverride ==
  Resolved =>
    /\ NamedMode # <<>> => ResolvedMode = NamedMode
    /\ TraceSwitchedOn => ResolvedMode = ModeOn
    /\ (NamedMode = <<>> /\ ~TraceSwitchedOn) => ResolvedMode = opt.pw_trace
    /\ (TraceFalsyNotOff \/ TraceKeepWord) => ResolvedMode = opt.pw_trace
    /\ (TraceFalsyNotOff /\ opt.pw_trace # ModeOff) => preferences.trace.enabled
C27_Witness ==
  /\ Resolved
  /\ opt.pw_trace = ModeRetain
  /\ EnvTrace = Some(<<"d","i","s","a","b","l","e","d">>)
  /\ preferences.trace.enabled /\ preferences.trace.retain_on_failure

\* ------------------------------------------------ recording disabled
RecordingDisabled == td.page_ran /\ ~preferences.video.record

\* C28: with recording disabled a video handle the page has is deleted and
\* neither saved nor attached, for every outcome and every keep-on-pass; with
\* recording disabled and no handle nothing is saved, attached or deleted.
C28_DisabledDeletesHandle ==
  RecordingDisabled =>
    /\ Count("video.save_as") = 0
    /\ Count("allure.attach.file") = 0
    /\ Count("ensure_dir(videos)") = 0
    /\ ~td.keep /\ ~td.attach_on_keep
    /\ td.ret = <<>>
    /\ td.video_obj # "None" => td.fin_called /\ Count("video.delete") = 1
    /\ td.video_obj = "None" => ~td.fin_called /\ Count("video.delete") = 0
C28_Witness ==
  /\ RecordingDisabled
  /\ preferences.video.keep_on_pass
  /\ rep.call = "failed"
  /\ td.video_obj # "None"
  /\ FinalizeCalls = <<Ev("video.delete", TRUE, <<>>)>>

\* ------------------------------------------------ the login request monitor
\* the requests a page makes: login posts, other requests to the login URL,
\* posts to other URLs
LoginUrl == <<"h",":","/","/","a","/","a","d","m","i","n","/","l","o","g","i","n","/">>
LoginNextUrl ==
  <<"h",":","/","/","a","/","a","d","m","i","n","/","l","o","g","i","n","/","?","n","=","/">>
AdminUrl == <<"h",":","/","/","a","/","a","d","m","i","n","/">>
LogoutUrl == <<"h",":","/","/","a","/","a","d","m","i","n","/","l","o","g","o","u","t","/">>
Methods == {"POST", "GET"}
Urls == {LoginUrl, LoginNextUrl, AdminUrl, LogoutUrl}
Handlers == {callback(name) : name \in Callbacks} \cup {store_url(st) : st \in Storages}

InitMonitor ==
  /\ pc = "monitor"
  /\ opt = DefaultOpt
  /\ environ = HostOnlyEnv
  /\ NothingRun
  /\ NothingParsed
  /\ NothingNamed
  /\ NothingCalled
  /\ NothingMonitored

Registered(r, handler) ==
  /\ monitor' = r.self
  /\ listeners' = r.listeners
  /\ registrations' = Append(registrations, handler)
  /\ UNCHANGED <<opt, environ, fixtures, log, pc, received, requests, value, parsed,
                 text, names, waiting, returned>>
\* a test calls monitor.on_login_request(handler)
OnLoginRequest ==
  /\ pc = "monitor"
  /\ Len(registrations) < MaxRegistrations
  /\ \E name \in Callbacks :
       Registered(on_login_request(monitor, listeners, callback(name)), callback(name))
\* a test calls monitor.collect_requests(storage)
CollectRequests ==
  /\ pc = "monitor"
  /\ Len(registrations) < MaxRegistrations
  /\ \E st \in Storages :
       Registered(collect_requests(monitor, listeners, st), store_url(st))
\* the page makes a request
PageRequest ==
  /\ pc = "monitor"
  /\ Len(requests) < MaxRequests
  /\ \E method \in Methods, url \in Urls :
       LET request == [method |-> method, url |-> url]
       IN /\ received' = Emit(listeners, monitor, received, request)
          /\ requests' = Append(requests, [request |-> request,
                                           after |-> Len(registrations)])
  /\ UNCHANGED <<opt, environ, fixtures, log, pc, monitor, listeners, registrations,
                 value, parsed, text, names, waiting, returned>>
NextMonitor == OnLoginRequest \/ CollectRequests \/ PageRequest
SpecMonitor == InitMonitor /\ [][NextMonitor]_vars

\* the login posts, written out
LoginPosts == {[method |-> "POST", url |-> LoginUrl],
               [method |-> "POST", url |-> LoginNextUrl]}
\* the requests the handler h must have been given: the login posts made while
\* it was the handler registered last
GivenTo(h) ==
  SelectSeq(requests, LAMBDA r : /\ r.request \in LoginPosts
                                 /\ r.after > 0
                                 /\ registrations[r.after] = h)
\* what a callback or a storage list must hold
Expected(target) ==
  LET cb == GivenTo(callback(target))
      st == GivenTo(store_url(target))
  IN IF target \in Callbacks
       THEN [i \in 1..Len(cb) |-> cb[i].request]
       ELSE [i \in 1..Len(st) |-> st[i].request.url]

\* C29: for any sequence of on_login_request and collect_requests calls the
\* page's "request" listener is registered exactly once, by the first call;
\* only the handler registered last is invoked, an earlier callback or storage
\* list receives nothing more; that handler is invoked exactly once for each
\* POST request whose URL contains /admin/login and for no other request.
C29_OneListenerLastHandler ==
  /\ Len(listeners) = (IF registrations = <<>> THEN 0 ELSE 1)
  /\ monitor._listener_registered = (registrations # <<>>)
  /\ registrations # <<>> => monitor._handler = registrations[Len(registrations)]
  /\ \A target \in Callbacks \cup Storages : received[target] = Expected(target)
C29_Witness ==
  /\ registrations = <<callback("handler_a"), store_url("storage_a")>>
  /\ Len(requests) = 2
  /\ requests[1].after = 1
  /\ requests[2].after = 2
  /\ received["handler_a"] = <<[method |-> "POST", url |-> LoginUrl]>>
  /\ received["storage_a"] = <<LoginNextUrl>>
  /\ Len(listeners) = 1

\* ------------------------------------------------ the runtime records
\* the items whose run-test protocol has ended
ItemsExecuted == IF pc \in {"idle", "finished"} THEN testNo ELSE testNo - 1

\* C30: one runtime record is appended per executed item, every label is
\* passed, failed or skipped, and the summary has Total = the number of
\* records and Passed + Failed <= Total, the records labelled skipped being
\* counted in neither; without a record no summary is printed.
C30_RecordsAndSummary ==
  /\ Len(durations) = ItemsExecuted
  /\ \A i \in 1..Len(durations) : durations[i] \in {"passed", "failed", "skipped"}
  /\ pc # "finished" => summary = NoSummary
  /\ pc = "finished" =>
       /\ summary.printed = (Len(durations) > 0)
       /\ summary.total = Len(durations)
       /\ summary.passed = Labelled("passed")
       /\ summary.failed = Labelled("failed")
       /\ summary.passed + summary.failed = summary.total - Labelled("skipped")
       /\ summary.passed + summary.failed <= summary.total
C30_Witness ==
  /\ pc = "finished"
  /\ durations = <<"skipped", "failed">>
  /\ summary = [printed |-> TRUE, total |-> 2, passed |-> 0, failed |-> 1]

====
